---- MODULE Spec2Model ----
(***************************************************************************)
(* CORA-GO anchor: the tool registry and executor (anchor/tools), the       *)
(* Supabase relay poll loop (anchor/relay.py) and the pairing manager      *)
(* (anchor/pairing.py), as state machines.                                 *)
(***************************************************************************)
EXTENDS Integers, Sequences, FiniteSets, TLC

VARIABLES
    TOOLS,      \* anchor.tools._TOOLS: the registry, in dict insertion order
    lastExec,   \* the latest direct execute_tool call and what came of it
    regs,       \* number of register_tool calls made after import time
    regLog,     \* every register_tool call so far, import time included, in order
    url,        \* Relay.url
    key,        \* Relay.key
    running,    \* Relay.running
    thread,     \* Relay._thread: index of the latest poll thread, 0 for None
    loops,      \* the poll_loop threads spawned so far, in spawn order
    cmds,       \* the remote cora_commands table, in insertion order
    runs,       \* per command: how many times its tool was executed
    online,     \* the cora_status row of this anchor was upserted
    faults,     \* transport faults injected so far
    started,    \* what the latest Relay.start() call returned, None before any
    clock,      \* time.time(), in seconds
    last_heartbeat, \* per poll_loop thread: its local last_heartbeat
    codes,      \* the remote cora_pairing table, in insertion order
    current_code,   \* PairingManager.current_code, <<>> for None
    polling,    \* PairingManager._polling
    polls,      \* the pairing poll threads spawned so far, in spawn order
    lastGen,    \* what the latest generate_pairing_code call returned
    typed,      \* the text the user typed at the chat front end
    intent,     \* what detect_tool_intent came to on it
    command,    \* what Coramini.extract_command came to on it
    turn,       \* what one turn of interactive_mode did with it
    chat,       \* the remote cora_chat table, oldest message first
    last_message_id,    \* Coramini.last_message_id, 0 for None
    mini,       \* Coramini.running and where its poll_loop thread is
    answered,   \* per chat message: how many times Coramini responded to it
    tts_queue,  \* voice._tts_queue: the texts waiting to be spoken
    unfinished_tasks,   \* _tts_queue.unfinished_tasks, what join() waits on
    tts_thread, \* voice._tts_thread: whether the worker is alive and what it does
    speaks,     \* the speak() calls made so far, in call order
    spoken,     \* the texts the worker has spoken, in order
    stopping    \* stop_speaking() calls made, and whether one is draining

toolVars == <<TOOLS, lastExec, regs, regLog>>
relayVars == <<url, key, running, thread, loops, cmds, runs, online, faults,
               started, clock, last_heartbeat>>
pairVars == <<codes, current_code, polling, polls, lastGen>>
routerVars == <<typed, intent, command, turn>>
miniVars == <<chat, last_message_id, mini, answered>>
voiceVars == <<tts_queue, unfinished_tasks, tts_thread, speaks, spoken, stopping>>
frontVars == <<routerVars, miniVars, voiceVars>>
vars == <<TOOLS, lastExec, regs, regLog, url, key, running, thread, loops, cmds, runs,
          online, faults, started, clock, last_heartbeat,
          codes, current_code, polling, polls, lastGen,
          typed, intent, command, turn,
          chat, last_message_id, mini, answered,
          tts_queue, unfinished_tasks, tts_thread, speaks, spoken, stopping>>

(***************************************************************************)
(* Bounds of the model.                                                    *)
(***************************************************************************)
MaxRegs == 2      \* register_tool calls after import time
MaxCmds == 2      \* commands the mobile side enqueues while the relay runs
MaxStarts == 2    \* Relay.start() calls
MaxFaults == 1    \* requests that fail with a transport fault
Backlog == 6      \* commands already pending when the batch scenario begins
Queued == 1       \* commands already pending when the shutdown scenario begins
MaxTicks == 3     \* steps by which the clock advances
MaxCodes == 2     \* rows generate_pairing_code inserts
MaxPolls == 2     \* start_pairing_poll calls

(***************************************************************************)
(* Python values, as far as the executor and the relay look at them.       *)
(***************************************************************************)
PyDict(d) == [t |-> "dict", d |-> d]
PyStr(s) == [t |-> "str", s |-> s]
PyInt(n) == [t |-> "int", n |-> n]
PyNone == [t |-> "none"]
PyBool(b) == [t |-> "bool", b |-> b]
PySet(e) == [t |-> "set", e |-> e]

EmptyDict == PyDict([k \in {} |-> ""])

\* The characters of a str value; the dict key "error" is the TLA+ string.
ErrorChars == <<"e", "r", "r", "o", "r">>
OkChars == <<"o", "k">>
NoErrorChars == <<"n", "o", " ", "e", "r", "r", "o", "r">>

\* The outcome of a Python call: a returned value or a raised Exception.
Return(v) == [raised |-> FALSE, value |-> v, msg |-> ""]
Raise(m) == [raised |-> TRUE, value |-> PyNone, msg |-> m]

IsSubstring(sub, s) ==
    \E k \in 0..(Len(s) - Len(sub)) : SubSeq(s, k + 1, k + Len(sub)) = sub

\* Python's `"error" in x`: key membership for a dict, substring for a str,
\* element membership for a set, TypeError for None and numbers.
py_in_error(x) ==
    CASE x.t = "dict" -> Return("error" \in DOMAIN x.d)
      [] x.t = "str" -> Return(IsSubstring(ErrorChars, x.s))
      [] x.t = "set" -> Return("error" \in x.e)
      [] OTHER -> Raise("argument of type is not iterable")

\* json.dumps accepts dict, str, int and None; a set raises TypeError.
json_serializable(x) == x.t \in {"dict", "str", "int", "none"}

(***************************************************************************)
(* Tool handlers.  register_tool accepts any callable; one handler per     *)
(* class of behaviour the executor and the relay can meet.                 *)
(***************************************************************************)
Handlers == {"echo", "boom", "report_error", "return_none", "return_text",
             "return_error_text", "return_number", "return_set"}

\* The named parameters a handler requires.
handler_params(h) == IF h = "echo" THEN {"text"} ELSE {}

\* The handler's body, run once its arguments are bound.
handler_body(h, args) ==
    CASE h = "echo" -> Return(PyDict([echoed |-> args.d.text]))
      [] h = "boom" -> Raise("boom")
      [] h = "report_error" -> Return(PyDict([error |-> "TTS not available", engine |-> "none"]))
      [] h = "return_none" -> Return(PyNone)
      [] h = "return_text" -> Return(PyStr(OkChars))
      [] h = "return_error_text" -> Return(PyStr(NoErrorChars))
      [] h = "return_number" -> Return(PyInt(5))
      [] h = "return_set" -> Return(PySet({"a"}))

\* func(**args): a non-mapping or a mapping that does not fit the parameters
\* raises TypeError before the body runs.
py_call(h, args) ==
    IF args.t # "dict" THEN Raise("argument after ** must be a mapping")
    ELSE IF DOMAIN args.d # handler_params(h) THEN Raise("unexpected or missing keyword argument")
    ELSE handler_body(h, args)

(***************************************************************************)
(* anchor/tools/__init__.py                                                *)
(***************************************************************************)
NoTool == [name |-> "", description |-> "", parameters |-> "", func |-> ""]

Names(tools) == {tools[k].name : k \in 1..Len(tools)}

\* _TOOLS.get(name)
get_tool(tools, name) ==
    IF name \in Names(tools)
    THEN tools[CHOOSE k \in 1..Len(tools) : tools[k].name = name]
    ELSE NoTool

\* A registration that keeps the entry a name already has (_TOOLS.setdefault).
register_tool_keep_first(tools, name, description, parameters, func) ==
    IF name \in Names(tools) THEN tools
    ELSE Append(tools, [name |-> name, description |-> description,
                        parameters |-> parameters, func |-> func])

\* A registration that moves a known name to the end (pop, then insert).
register_tool_move_last(tools, name, description, parameters, func) ==
    Append(SelectSeq(tools, LAMBDA e : e.name # name),
           [name |-> name, description |-> description,
            parameters |-> parameters, func |-> func])

\* _TOOLS[name] = {...}: a known name keeps its place, a new one goes last.
register_tool(tools, name, description, parameters, func) ==
    LET entry == [name |-> name, description |-> description,
                  parameters |-> parameters, func |-> func]
    IN IF name \in Names(tools)
       THEN [k \in 1..Len(tools) |-> IF tools[k].name = name THEN entry ELSE tools[k]]
       ELSE Append(tools, entry)

list_tools(tools) == [k \in 1..Len(tools) |-> tools[k].name]

get_openai_tools(tools) ==
    [k \in 1..Len(tools) |->
        [type |-> "function",
         function |-> [name |-> tools[k].name,
                       description |-> tools[k].description,
                       parameters |-> tools[k].parameters]]]

\* What a call of execute_tool comes to: its outcome and the handlers it invoked.
Executed(outcome, calls) ==
    [raised |-> outcome.raised, value |-> outcome.value, msg |-> outcome.msg,
     calls |-> calls]

\* execute_tool with the handler called outside the try block.
execute_tool_unguarded(tools, name, args) ==
    LET tool == get_tool(tools, name)
    IN IF tool = NoTool
       THEN Executed(Return(PyDict([error |-> "Unknown tool: " \o name])), <<>>)
       ELSE Executed(py_call(tool.func, args), <<tool.func>>)

\* execute_tool with an unknown name falling back to the first registered tool.
execute_tool_fallback(tools, name, args) ==
    LET found == get_tool(tools, name)
        tool == IF found = NoTool /\ Len(tools) > 0 THEN tools[1] ELSE found
        r == py_call(tool.func, args)
    IN IF tool = NoTool
       THEN Executed(Return(PyDict([error |-> "Unknown tool: " \o name])), <<>>)
       ELSE IF r.raised
            THEN Executed(Return(PyDict([error |-> r.msg])), <<tool.func>>)
            ELSE Executed(r, <<tool.func>>)

execute_tool(tools, name, args) ==
    LET tool == get_tool(tools, name)
        r == py_call(tool.func, args)
    IN IF tool = NoTool
       THEN Executed(Return(PyDict([error |-> "Unknown tool: " \o name])), <<>>)
       ELSE IF r.raised
            THEN Executed(Return(PyDict([error |-> r.msg])), <<tool.func>>)
            ELSE Executed(r, <<tool.func>>)

(***************************************************************************)
(* The state after import: the tool modules have registered their tools.   *)
(***************************************************************************)
ToolNames == {"echo", "boom", "speak", "t_none", "t_text", "t_errtext", "t_number", "t_set"}

ImportedTools ==
    <<[name |-> "echo", description |-> "Echo text", parameters |-> "text", func |-> "echo"],
      [name |-> "boom", description |-> "Always fails", parameters |-> "none", func |-> "boom"],
      [name |-> "speak", description |-> "Speak text", parameters |-> "none", func |-> "report_error"],
      [name |-> "t_none", description |-> "No result", parameters |-> "none", func |-> "return_none"],
      [name |-> "t_text", description |-> "Text result", parameters |-> "none", func |-> "return_text"],
      [name |-> "t_errtext", description |-> "Text result", parameters |-> "none", func |-> "return_error_text"],
      [name |-> "t_number", description |-> "Number result", parameters |-> "none", func |-> "return_number"],
      [name |-> "t_set", description |-> "Set result", parameters |-> "none", func |-> "return_set"]>>

NoExec == [name |-> "", args |-> PyNone, out |-> Executed(Return(PyNone), <<>>)]

\* Argument values a caller may pass: fitting "echo", empty, and JSON null.
ArgValues == {PyDict([text |-> "hi"]), EmptyDict, PyNone}

\* Names a caller may ask for: registered ones and ones nobody registered.
CallNames == {"echo", "boom", "t_none", "t", "nonexistent_tool_xyz"}

RegNames == {"t", "echo"}
RegHandlers == {"echo", "boom", "return_none"}
RegDescriptions == {"first", "second"}
RegParameters == {"none", "text"}

\* Each tool module's register_tool calls at import time are the first calls.
InitTools ==
    /\ TOOLS = ImportedTools
    /\ lastExec = NoExec
    /\ regs = 0
    /\ regLog = ImportedTools

\* time.time() when the process comes up: seconds since 1970.
Epoch == 1000

\* Relay.__init__: config values or the built-in Supabase project.
InitHost ==
    /\ url = "https://bugpycickribmdfprryq.supabase.co"
    /\ key = "sb_publishable"
    /\ running = FALSE
    /\ thread = 0
    /\ loops = <<>>
    /\ online = FALSE
    /\ faults = 0
    /\ started = PyNone
    /\ clock = Epoch
    /\ last_heartbeat = <<>>

InitRelay ==
    /\ InitHost
    /\ cmds = <<>>
    /\ runs = <<>>

\* PairingManager.__init__ and an empty cora_pairing table.
NoCode == <<>>

NoGen == [t |-> "none"]

InitPairing ==
    /\ codes = <<>>
    /\ current_code = NoCode
    /\ polling = FALSE
    /\ polls = <<>>
    /\ lastGen = NoGen

\* The chat front ends before any input.
NoText == <<>>

Unrouted == [kind |-> "unrouted"]

\* Coramini.__init__ and an empty cora_chat table.
InitMini ==
    /\ chat = <<>>
    /\ last_message_id = 0
    /\ mini = [running |-> FALSE, pc |-> "none", batch |-> <<>>, i |-> 0]
    /\ answered = <<>>

\* anchor/tools/voice.py at import: an empty queue and no worker thread.
InitVoice ==
    /\ tts_queue = <<>>
    /\ unfinished_tasks = 0
    /\ tts_thread = [alive |-> FALSE, pc |-> "none", text |-> ""]
    /\ speaks = <<>>
    /\ spoken = <<>>
    /\ stopping = [calls |-> 0, draining |-> FALSE]

InitFront ==
    /\ typed = NoText
    /\ intent = Unrouted
    /\ command = Unrouted
    /\ turn = Unrouted
    /\ InitMini
    /\ InitVoice

Init == InitTools /\ InitRelay /\ InitPairing /\ InitFront

(***************************************************************************)
(* Direct use of the registry by the host (chat front end, tool modules).  *)
(***************************************************************************)
RegisterTool ==
    /\ regs < MaxRegs
    /\ \E name \in RegNames, description \in RegDescriptions,
          parameters \in RegParameters, func \in RegHandlers :
          /\ TOOLS' = register_tool(TOOLS, name, description, parameters, func)
          /\ regLog' = Append(regLog, [name |-> name, description |-> description,
                                        parameters |-> parameters, func |-> func])
    /\ regs' = regs + 1
    /\ UNCHANGED <<lastExec, relayVars, pairVars, frontVars>>

ExecuteTool ==
    /\ \E name \in CallNames, args \in ArgValues :
          lastExec' = [name |-> name, args |-> args,
                       out |-> execute_tool(TOOLS, name, args)]
    /\ UNCHANGED <<TOOLS, regs, regLog, relayVars, pairVars, frontVars>>

NextTools == RegisterTool \/ ExecuteTool

SpecTools == Init /\ [][NextTools]_vars

(***************************************************************************)
(* anchor/relay.py: the remote cora_commands table and the requests on it. *)
(***************************************************************************)
FetchLimit == 5

\* What the mobile side may enqueue: a tool name and its params.
CommandInputs ==
    {<<"echo", PyDict([text |-> "hi"])>>, <<"echo", PyNone>>,
     <<"boom", EmptyDict>>, <<"t_none", EmptyDict>>,
     <<"t_text", EmptyDict>>, <<"t_errtext", EmptyDict>>, <<"t_number", EmptyDict>>,
     <<"t_set", EmptyDict>>, <<"nonexistent_tool_xyz", EmptyDict>>}

NewCommand(n, input) ==
    [id |-> n, command |-> input[1], params |-> input[2], status |-> "pending",
     result |-> PyNone, created_at |-> n, completed_at |-> "null"]

Row(rows, id) == rows[CHOOSE k \in 1..Len(rows) : rows[k].id = id]

\* A configuration test that looks at the url alone.
is_configured_url_only == url # ""

\* bool(self.url and self.key)
is_configured == url # "" /\ key # ""

\* A fetch filter that also takes the commands left in running.
fetch_filter_unfinished(r) == r.status \in {"pending", "running"}

\* The fetch query's filter, status=eq.pending.
fetch_filter(r) == r.status = "pending"

RECURSIVE InsertByCreatedAt(_, _)
InsertByCreatedAt(sorted, r) ==
    IF sorted = <<>> THEN <<r>>
    ELSE IF r.created_at < Head(sorted).created_at THEN <<r>> \o sorted
    ELSE <<Head(sorted)>> \o InsertByCreatedAt(Tail(sorted), r)

RECURSIVE OrderByCreatedAt(_)
OrderByCreatedAt(rows) ==
    IF rows = <<>> THEN <<>>
    ELSE InsertByCreatedAt(OrderByCreatedAt(Tail(rows)), Head(rows))

Limit(rows, n) == SubSeq(rows, 1, IF Len(rows) < n THEN Len(rows) ELSE n)

\* The fetch query without its order clause: rows come in table order.
select_pending_unordered(rows) ==
    Limit(SelectSeq(rows, fetch_filter), FetchLimit)

\* GET cora_commands?status=eq.pending&order=created_at.asc&limit=5
select_pending(rows) ==
    Limit(OrderByCreatedAt(SelectSeq(rows, fetch_filter)), FetchLimit)

\* get_pending_commands: the rows of a successful fetch, [] when the request
\* failed (_request then returns a dict, not a list).  Rows are kept by id.
get_pending_commands(rows, ok) ==
    IF ok THEN [k \in 1..Len(select_pending(rows)) |-> select_pending(rows)[k].id]
    ELSE <<>>

\* A mark-running update that claims the row: it applies only while the row
\* is still pending (PATCH ...&status=eq.pending).
patch_running_if_pending(rows, id) ==
    [k \in 1..Len(rows) |->
        IF rows[k].id = id /\ rows[k].status = "pending"
        THEN [rows[k] EXCEPT !.status = "running"] ELSE rows[k]]

\* PATCH cora_commands?id=eq.<id> with {"status": "running"}
patch_running(rows, id) ==
    [k \in 1..Len(rows) |->
        IF rows[k].id = id THEN [rows[k] EXCEPT !.status = "running"] ELSE rows[k]]

\* The status execute_command writes for a result; the membership test has
\* already succeeded when this is used.
terminal_status(result) ==
    IF ~py_in_error(result).value THEN "done" ELSE "error"

\* PATCH cora_commands?id=eq.<id> with status, result and completed_at
patch_result(rows, id, result) ==
    [k \in 1..Len(rows) |->
        IF rows[k].id = id
        THEN [rows[k] EXCEPT !.status = terminal_status(result),
                             !.result = result,
                             !.completed_at = "ts"]
        ELSE rows[k]]

\* A poll_loop without its try/except: an exception ends the thread.
after_exception_uncaught == "exited"

\* Where poll_loop goes after an exception inside the try block: the except
\* clause prints it and the loop falls through to time.sleep.
after_exception == "sleep"

\* A loop that never looks at the flag.
while_true == TRUE

\* The condition of `while self.running:`.
while_running == running

\* A poll_loop thread: where it is, the commands of the current cycle's fetch,
\* the index of the one in hand, and how many terminal updates the cycle has
\* issued.  The cycle's locals are dead outside the for loop.
AtPc(pc) == [pc |-> pc, batch |-> <<>>, i |-> 0, issued |-> 0]

NewLoop == AtPc("top")

\* _request: without url or key it returns an error and sends nothing; else
\* the request may fail in transport while the fault budget lasts.
RequestOutcomes ==
    IF ~is_configured THEN {FALSE}
    ELSE IF faults < MaxFaults THEN {TRUE, FALSE} ELSE {TRUE}

Fault(ok) == IF ok \/ ~is_configured THEN faults ELSE faults + 1

HeartbeatInterval == 30

\* if now - last_heartbeat > heartbeat_interval
heartbeat_due(now, last) == now - last > HeartbeatInterval

\* What self.heartbeat() comes to once it is due: published, failed in
\* transport, refused by _request for want of url or key, or an exception
\* out of system_info.
HeartbeatOutcomes ==
    IF ~is_configured THEN {"refused", "raise"}
    ELSE {"sent", "raise"} \cup (IF faults < MaxFaults THEN {"failed"} ELSE {})

(***************************************************************************)
(* The mobile side inserts a command.                                      *)
(***************************************************************************)
Enqueue ==
    /\ Len(cmds) < MaxCmds
    /\ \E input \in CommandInputs :
          cmds' = Append(cmds, NewCommand(Len(cmds) + 1, input))
    /\ runs' = Append(runs, 0)
    /\ UNCHANGED <<frontVars, toolVars, pairVars, clock, started, last_heartbeat, url, key, running,
                   thread, loops, online, faults>>

(***************************************************************************)
(* Time passes: d seconds between two readings of the clock.               *)
(***************************************************************************)
Pass(d) ==
    /\ clock < Epoch + MaxTicks * d
    /\ clock' = clock + d
    /\ UNCHANGED <<frontVars, toolVars, pairVars, url, key, running, thread, loops, cmds, runs,
                   online, faults, started, last_heartbeat>>

\* Half a heartbeat interval: a cycle held up by a slow tool.
HalfInterval == HeartbeatInterval \div 2

(***************************************************************************)
(* Relay.start and Relay.stop                                              *)
(***************************************************************************)
\* Relay.start(); the new thread's last_heartbeat starts at 0.
start ==
    IF ~is_configured
    THEN /\ started' = PyBool(FALSE)
         /\ UNCHANGED <<running, thread, loops, last_heartbeat>>
    ELSE /\ running' = TRUE
         /\ loops' = Append(loops, NewLoop)
         /\ last_heartbeat' = Append(last_heartbeat, 0)
         /\ thread' = Len(loops) + 1
         /\ started' = PyBool(TRUE)

\* The GUI host: boot_sequence starts the relay, and so does the pairing
\* window's start_relay_and_close each time a pairing is claimed.
Start ==
    /\ Len(loops) < MaxStarts
    /\ start
    /\ UNCHANGED <<frontVars, toolVars, pairVars, clock, url, key, cmds, runs, online, faults>>

\* The terminal host: main_loop starts the relay once.
MainLoop ==
    /\ loops = <<>>
    /\ is_configured
    /\ start
    /\ UNCHANGED <<frontVars, toolVars, pairVars, clock, url, key, cmds, runs, online, faults>>

\* Relay.configure(url, anon_key), with either value possibly empty.  The
\* host sets credentials while the relay is stopped; a loop may still be
\* finishing its last iteration.
Urls == {"", "https://bugpycickribmdfprryq.supabase.co"}
Keys == {"", "sb_publishable"}

Configure ==
    /\ ~running
    /\ \E u \in Urls, k \in Keys :
          /\ url' = u
          /\ key' = k
    /\ UNCHANGED <<frontVars, toolVars, pairVars, clock, started, last_heartbeat, running, thread,
                   loops, cmds, runs, online, faults>>

\* Relay.stop(): clears the flag; the bounded join only delays the caller.
Stop ==
    /\ running' = FALSE
    /\ UNCHANGED <<frontVars, toolVars, pairVars, clock, started, last_heartbeat, url, key, thread,
                   loops, cmds, runs, online, faults>>

(***************************************************************************)
(* Relay.poll_loop, one thread t                                           *)
(***************************************************************************)
\* `while self.running:` and the heartbeat block.  A heartbeat that returns,
\* published or not, resets the timer; one that raises does not.
LoopBegin(t) ==
    /\ loops[t].pc = "top"
    /\ IF ~while_running
       THEN /\ loops' = [loops EXCEPT ![t] = AtPc("exited")]
            /\ UNCHANGED <<online, faults, last_heartbeat>>
       ELSE LET now == clock
            IN IF heartbeat_due(now, last_heartbeat[t])
               THEN \E hb \in HeartbeatOutcomes :
                       /\ loops' = [loops EXCEPT ![t] =
                              IF hb = "raise" THEN AtPc(after_exception) ELSE AtPc("fetch")]
                       /\ online' = IF hb = "sent" THEN TRUE ELSE online
                       /\ faults' = IF hb = "failed" THEN faults + 1 ELSE faults
                       /\ last_heartbeat' = IF hb = "raise" THEN last_heartbeat
                                            ELSE [last_heartbeat EXCEPT ![t] = now]
               ELSE /\ loops' = [loops EXCEPT ![t] = AtPc("fetch")]
                    /\ UNCHANGED <<online, faults, last_heartbeat>>
    /\ UNCHANGED <<frontVars, toolVars, pairVars, clock, started, url, key, running, thread, cmds, runs>>

\* commands = self.get_pending_commands()
LoopFetch(t) ==
    /\ loops[t].pc = "fetch"
    /\ \E ok \in RequestOutcomes :
          LET commands == get_pending_commands(cmds, ok)
          IN /\ loops' = [loops EXCEPT ![t] =
                    IF commands = <<>> THEN AtPc("sleep")
                    ELSE [pc |-> "mark", batch |-> commands, i |-> 1, issued |-> 0]]
             /\ faults' = Fault(ok)
    /\ UNCHANGED <<frontVars, toolVars, pairVars, clock, started, last_heartbeat, url, key, running,
                   thread, cmds, runs, online>>

\* execute_command: mark as running
LoopMark(t) ==
    /\ loops[t].pc = "mark"
    /\ \E ok \in RequestOutcomes :
          /\ cmds' = IF ok THEN patch_running(cmds, loops[t].batch[loops[t].i]) ELSE cmds
          /\ faults' = Fault(ok)
    /\ loops' = [loops EXCEPT ![t].pc = "tool"]
    /\ UNCHANGED <<frontVars, toolVars, pairVars, clock, started, last_heartbeat, url, key, running, thread, runs, online>>

\* execute_command: execute the tool and update the row with the result
LoopExecute(t) ==
    /\ loops[t].pc = "tool"
    /\ LET id == loops[t].batch[loops[t].i]
           cmd == Row(cmds, id)
           result == execute_tool(TOOLS, cmd.command, cmd.params)
           last == loops[t].i = Len(loops[t].batch)
       IN /\ runs' = [runs EXCEPT ![id] = @ + 1]
          /\ IF result.raised \/ py_in_error(result.value).raised
             THEN /\ loops' = [loops EXCEPT ![t] = AtPc(after_exception)]
                  /\ UNCHANGED <<cmds, faults>>
             ELSE /\ loops' = [loops EXCEPT ![t] =
                                IF last THEN AtPc("sleep")
                                ELSE [@ EXCEPT !.pc = "mark", !.i = @ + 1, !.issued = @ + 1]]
                  /\ IF ~json_serializable(result.value)
                     THEN UNCHANGED <<cmds, faults>>
                     ELSE \E ok \in RequestOutcomes :
                             /\ cmds' = IF ok THEN patch_result(cmds, id, result.value) ELSE cmds
                             /\ faults' = Fault(ok)
    /\ UNCHANGED <<frontVars, toolVars, pairVars, clock, started, last_heartbeat, url, key, running, thread, online>>

\* time.sleep(interval)
LoopSleep(t) ==
    /\ loops[t].pc = "sleep"
    /\ loops' = [loops EXCEPT ![t] = AtPc("top")]
    /\ UNCHANGED <<frontVars, toolVars, pairVars, clock, started, last_heartbeat, url, key, running,
                   thread, cmds, runs, online, faults>>

LoopStep(t) ==
    /\ t <= Len(loops)
    /\ LoopBegin(t) \/ LoopFetch(t) \/ LoopMark(t) \/ LoopExecute(t) \/ LoopSleep(t)

\* The GUI host: several start() calls on the one relay.
Next ==
    \/ Enqueue
    \/ Start
    \/ Stop
    \/ \E t \in 1..Len(loops) : LoopBegin(t)
    \/ \E t \in 1..Len(loops) : LoopFetch(t)
    \/ \E t \in 1..Len(loops) : LoopMark(t)
    \/ \E t \in 1..Len(loops) : LoopExecute(t)
    \/ \E t \in 1..Len(loops) : LoopSleep(t)

Spec == Init /\ [][Next]_vars

\* The terminal host: one start() call.
NextDaemon ==
    \/ Enqueue
    \/ MainLoop
    \/ Stop
    \/ \E t \in 1..Len(loops) : LoopBegin(t)
    \/ \E t \in 1..Len(loops) : LoopFetch(t)
    \/ \E t \in 1..Len(loops) : LoopMark(t)
    \/ \E t \in 1..Len(loops) : LoopExecute(t)
    \/ \E t \in 1..Len(loops) : LoopSleep(t)

SpecDaemon == Init /\ [][NextDaemon]_vars

\* The terminal host coming up with a few commands already queued, and shut
\* down at some point: no command arrives meanwhile.
InitQueued ==
    /\ InitTools
    /\ InitHost
    /\ InitPairing
    /\ InitFront
    /\ \E input \in [1..Queued -> CommandInputs] :
          cmds = [k \in 1..Queued |-> NewCommand(k, input[k])]
    /\ runs = [n \in 1..Queued |-> 0]

NextShutdown ==
    \/ MainLoop
    \/ Stop
    \/ \E t \in 1..Len(loops) : LoopBegin(t)
    \/ \E t \in 1..Len(loops) : LoopFetch(t)
    \/ \E t \in 1..Len(loops) : LoopMark(t)
    \/ \E t \in 1..Len(loops) : LoopExecute(t)
    \/ \E t \in 1..Len(loops) : LoopSleep(t)

\* The poll thread is a daemon thread the interpreter keeps scheduling, and
\* every request carries a 10 s timeout, so a loop that can step does step.
FairShutdown ==
    InitQueued /\ [][NextShutdown]_vars /\ \A t \in 1..MaxStarts : WF_vars(LoopStep(t))

\* A host that sets the credentials through Relay.configure and calls
\* start() and stop() itself, with no command queued.
NextConfig ==
    \/ Configure
    \/ Start
    \/ Stop
    \/ \E t \in 1..Len(loops) : LoopBegin(t)
    \/ \E t \in 1..Len(loops) : LoopFetch(t)
    \/ \E t \in 1..Len(loops) : LoopSleep(t)

SpecConfig == Init /\ [][NextConfig]_vars

\* The terminal host with a command queued, while time passes between the
\* steps of the poll loop.
NextTimed ==
    \/ MainLoop
    \/ Stop
    \/ Pass(HalfInterval)
    \/ \E t \in 1..Len(loops) : LoopBegin(t)
    \/ \E t \in 1..Len(loops) : LoopFetch(t)
    \/ \E t \in 1..Len(loops) : LoopMark(t)
    \/ \E t \in 1..Len(loops) : LoopExecute(t)
    \/ \E t \in 1..Len(loops) : LoopSleep(t)

SpecTimed == InitQueued /\ [][NextTimed]_vars

\* The host coming up with a few echo commands pending.
InitPending ==
    /\ InitTools
    /\ InitHost
    /\ InitPairing
    /\ InitFront
    /\ cmds = [k \in 1..Queued |-> NewCommand(k, <<"echo", PyDict([text |-> "hi"])>>)]
    /\ runs = [n \in 1..Queued |-> 0]

\* The GUI host with a command queued: start() is called twice (C8), so two
\* poll loops work on the one command table.
NextTwoLoops ==
    \/ Start
    \/ \E t \in 1..Len(loops) : LoopBegin(t)
    \/ \E t \in 1..Len(loops) : LoopFetch(t)
    \/ \E t \in 1..Len(loops) : LoopMark(t)
    \/ \E t \in 1..Len(loops) : LoopExecute(t)
    \/ \E t \in 1..Len(loops) : LoopSleep(t)

SpecTwoLoops == InitPending /\ [][NextTwoLoops]_vars

\* start() called again after stop() has returned: stop() returns once the
\* latest thread has exited, or when its 5 s join times out on a thread that
\* is inside execute_command.
StartAgain ==
    /\ ~running
    /\ loops # <<>>
    /\ Len(loops) < MaxStarts
    /\ loops[thread].pc \in {"exited", "mark", "tool"}
    /\ start
    /\ UNCHANGED <<frontVars, toolVars, pairVars, clock, url, key, cmds, runs, online, faults>>

\* A host that stops the relay and starts it again, with commands pending.
NextRestart ==
    \/ MainLoop
    \/ Stop
    \/ StartAgain
    \/ \E t \in 1..Len(loops) : LoopBegin(t)
    \/ \E t \in 1..Len(loops) : LoopFetch(t)
    \/ \E t \in 1..Len(loops) : LoopMark(t)
    \/ \E t \in 1..Len(loops) : LoopExecute(t)
    \/ \E t \in 1..Len(loops) : LoopSleep(t)

SpecRestart == InitPending /\ [][NextRestart]_vars

\* The terminal host coming up with a backlog of pending commands.
BacklogInputs == {<<"echo", PyDict([text |-> "hi"])>>, <<"t_none", EmptyDict>>}

\* The backlog as the table holds it: newest row first, so that the fetch's
\* ordering is not the table's own.
InitBatch ==
    /\ InitTools
    /\ InitHost
    /\ InitPairing
    /\ InitFront
    /\ \E input \in [1..Backlog -> BacklogInputs] :
          cmds = [k \in 1..Backlog |-> NewCommand(Backlog + 1 - k, input[Backlog + 1 - k])]
    /\ runs = [n \in 1..Backlog |-> 0]

NextBatch ==
    \/ MainLoop
    \/ \E t \in 1..Len(loops) : LoopBegin(t)
    \/ \E t \in 1..Len(loops) : LoopFetch(t)
    \/ \E t \in 1..Len(loops) : LoopMark(t)
    \/ \E t \in 1..Len(loops) : LoopExecute(t)
    \/ \E t \in 1..Len(loops) : LoopSleep(t)

SpecBatch == InitBatch /\ [][NextBatch]_vars

(***************************************************************************)
(* anchor/pairing.py: pairing codes and the remote cora_pairing table.     *)
(***************************************************************************)
\* An alphabet that keeps the look-alike characters I, O, 0 and 1.
chars_with_lookalikes ==
    <<"A", "B", "C", "D", "E", "F", "G", "H", "I", "J", "K", "L", "M", "N", "O", "P",
      "Q", "R", "S", "T", "U", "V", "W", "X", "Y", "Z", "0", "1", "2", "3", "4", "5">>

\* chars = 'ABCDEFGHJKLMNPQRSTUVWXYZ23456789'
chars ==
    <<"A", "B", "C", "D", "E", "F", "G", "H", "J", "K", "L", "M", "N", "P", "Q", "R",
      "S", "T", "U", "V", "W", "X", "Y", "Z", "2", "3", "4", "5", "6", "7", "8", "9">>

CodeLength == 4

\* What random.choices(chars, k=4) may draw, as positions in chars: the two
\* ends of the alphabet and the places where I, O, 0 and 1 would have been.
Draws == {<<1, 9, 14, 32>>, <<9, 15, 27, 28>>}

\* 'CORA-' + ''.join(random.choices(chars, k=4)), as a sequence of characters
make_code(draw) ==
    <<"C", "O", "R", "A", "-">> \o [k \in 1..CodeLength |-> chars[draw[k]]]

ExpiryMinutes == 5

\* expires = now + timedelta(minutes=5), in seconds
expires_at(now) == now + ExpiryMinutes * 60

\* The anchor id of this installation.
AnchorId == "anchor-1"

\* The row generate_pairing_code inserts; claimed_at and claimed_by are null.
NewPairing(code, now) ==
    [code |-> code, anchor_id |-> AnchorId, anchor_name |-> "PC Anchor",
     expires_at |-> expires_at(now), claimed_at |-> <<>>, claimed_by |-> <<>>]

\* get_qr_url(code)
get_qr_url(code) == <<"https://tolerable.github.io/CORA-GO/web/pair.html?code=">> \o code

\* What generate_pairing_code returns.
Generated(code) == [t |-> "code", code |-> code, anchor_id |-> AnchorId,
                    qr_url |-> get_qr_url(code)]
GenerateFailed == [t |-> "error", error |-> "Failed to create pairing code"]

\* A status check that reports an absent row as still pending.
check_pairing_status_absent_pending(rows, code, ok) ==
    LET data == SelectSeq(rows, LAMBDA r : r.code = code)
    IN IF ~ok THEN [error |-> "transport"]
       ELSE IF Len(data) > 0 /\ data[1].claimed_at # <<>>
            THEN [status |-> "claimed", device_name |-> data[1].claimed_by,
                  anchor_id |-> data[1].anchor_id, anchor_name |-> data[1].anchor_name]
            ELSE [status |-> "pending"]

\* check_pairing_status: GET cora_pairing?code=eq.<code>; a transport fault is
\* returned as {"error": ...}.
check_pairing_status(rows, code, ok) ==
    LET data == SelectSeq(rows, LAMBDA r : r.code = code)
    IN IF ~ok THEN [error |-> "transport"]
       ELSE IF Len(data) > 0
            THEN IF data[1].claimed_at # <<>>
                 THEN [status |-> "claimed", device_name |-> data[1].claimed_by,
                       anchor_id |-> data[1].anchor_id, anchor_name |-> data[1].anchor_name]
                 ELSE [status |-> "pending"]
            ELSE [status |-> "expired"]

\* status.get("status")
status_of(status) == IF "status" \in DOMAIN status THEN status.status ELSE "None"

\* What poll() hands to the callback for a terminal status.
callback_arg(status) ==
    IF status_of(status) = "claimed" THEN status
    ELSE [error |-> "Pairing code expired"]

\* A pairing poll thread: where it is, the code it polls, the status it has
\* just read (dead once the if/elif has looked at it), and the arguments its
\* callback was invoked with.
NoStatus == [status |-> "unread"]
NewPoll(code) == [pc |-> "top", code |-> code, status |-> NoStatus, calls |-> <<>>]

PollCodes == {make_code(draw) : draw \in Draws}

\* urlopen in the pairing manager: may fail while the fault budget lasts.
UrlopenOutcomes == IF faults < MaxFaults THEN {TRUE, FALSE} ELSE {TRUE}

\* The relay's variables the pairing manager never touches.
relayRest == <<url, key, running, thread, loops, cmds, runs, online, started,
               last_heartbeat>>

\* generate_pairing_code: the table is keyed by code, so a code already there
\* is refused like any failed insert.
GenerateCode ==
    /\ Len(codes) < MaxCodes
    /\ \E draw \in Draws, sent \in UrlopenOutcomes :
          LET code == make_code(draw)
              ok == sent /\ \A k \in 1..Len(codes) : codes[k].code # code
          IN /\ IF ok
                THEN /\ codes' = Append(codes, NewPairing(code, clock))
                     /\ current_code' = code
                     /\ lastGen' = Generated(code)
                ELSE /\ lastGen' = GenerateFailed
                     /\ UNCHANGED <<codes, current_code>>
             /\ faults' = IF sent THEN faults ELSE faults + 1
    /\ UNCHANGED <<frontVars, toolVars, relayRest, clock, polling, polls>>

\* The mobile side claims an unclaimed code: claimed_at and claimed_by are set.
Claim ==
    /\ \E k \in 1..Len(codes) :
          /\ codes[k].claimed_at = <<>>
          /\ codes' = [codes EXCEPT ![k].claimed_at = <<"ts">>,
                                    ![k].claimed_by = <<"phone">>]
    /\ UNCHANGED <<frontVars, toolVars, relayRest, clock, faults, current_code, polling, polls, lastGen>>

\* start_pairing_poll(code, callback)
StartPairingPoll ==
    /\ Len(polls) < MaxPolls
    /\ \E code \in PollCodes :
          polls' = Append(polls, NewPoll(code))
    /\ polling' = TRUE
    /\ UNCHANGED <<frontVars, toolVars, relayRest, clock, faults, codes, current_code, lastGen>>

\* stop_pairing_poll()
StopPairingPoll ==
    /\ polling' = FALSE
    /\ UNCHANGED <<frontVars, toolVars, relayRest, clock, faults, codes, current_code, polls, lastGen>>

\* A poll() that takes a failed check for a terminal status.
is_terminal_or_failed(status) == status_of(status) # "pending"

\* The two branches of poll() that end the loop.
is_terminal(status) == status_of(status) \in {"claimed", "expired"}

\* A poll() without the break after the callback.
after_callback_no_break == "sleep"

\* Where poll() goes after the callback: break.
after_callback == "exited"

\* `while self._polling:`
PollTop(p) ==
    /\ polls[p].pc = "top"
    /\ polls' = [polls EXCEPT ![p].pc = IF polling THEN "check" ELSE "exited"]
    /\ UNCHANGED <<frontVars, toolVars, relayRest, clock, faults, codes, current_code, polling, lastGen>>

\* status = self.check_pairing_status(code)
PollCheck(p) ==
    /\ polls[p].pc = "check"
    /\ \E ok \in UrlopenOutcomes :
          /\ polls' = [polls EXCEPT ![p].pc = "decide",
                          ![p].status = check_pairing_status(codes, polls[p].code, ok)]
          /\ faults' = IF ok THEN faults ELSE faults + 1
    /\ UNCHANGED <<frontVars, toolVars, relayRest, clock, codes, current_code, polling, lastGen>>

\* The if/elif on the status: callback and break, or fall through to the sleep.
PollDecide(p) ==
    /\ polls[p].pc = "decide"
    /\ IF is_terminal(polls[p].status)
       THEN /\ polling' = FALSE
            /\ polls' = [polls EXCEPT ![p].pc = after_callback,
                            ![p].status = NoStatus,
                            ![p].calls = Append(@, callback_arg(polls[p].status))]
       ELSE /\ polls' = [polls EXCEPT ![p].pc = "sleep", ![p].status = NoStatus]
            /\ UNCHANGED polling
    /\ UNCHANGED <<frontVars, toolVars, relayRest, clock, faults, codes, current_code, lastGen>>

\* time.sleep(interval)
PollSleep(p) ==
    /\ polls[p].pc = "sleep"
    /\ polls' = [polls EXCEPT ![p].pc = "top"]
    /\ UNCHANGED <<frontVars, toolVars, relayRest, clock, faults, codes, current_code, polling, lastGen>>

PollStep(p) ==
    /\ p <= Len(polls)
    /\ PollTop(p) \/ PollCheck(p) \/ PollDecide(p) \/ PollSleep(p)

\* Half the life of a pairing code.
HalfExpiry == (ExpiryMinutes * 60) \div 2

\* The pairing window: codes are generated, claimed from the mobile side and
\* polled, while time passes.
NextPairing ==
    \/ GenerateCode
    \/ Claim
    \/ StartPairingPoll
    \/ StopPairingPoll
    \/ Pass(HalfExpiry)
    \/ \E p \in 1..Len(polls) : PollTop(p)
    \/ \E p \in 1..Len(polls) : PollCheck(p)
    \/ \E p \in 1..Len(polls) : PollDecide(p)
    \/ \E p \in 1..Len(polls) : PollSleep(p)

SpecPairing == Init /\ [][NextPairing]_vars

\* Codes are generated and claimed while time passes; nobody polls.
NextGenerate ==
    \/ GenerateCode
    \/ Claim
    \/ Pass(HalfExpiry)

SpecGenerate == Init /\ [][NextGenerate]_vars

\* The pairing window once a code was generated: the code is on display and
\* in the table, and is polled, claimed or left to expire.
InitDisplayed ==
    /\ InitTools
    /\ InitRelay
    /\ InitFront
    /\ \E draw \in Draws :
          /\ codes = <<NewPairing(make_code(draw), Epoch)>>
          /\ current_code = make_code(draw)
          /\ lastGen = Generated(make_code(draw))
    /\ polling = FALSE
    /\ polls = <<>>

NextPoll ==
    \/ Claim
    \/ StartPairingPoll
    \/ StopPairingPoll
    \/ Pass(HalfExpiry)
    \/ \E p \in 1..Len(polls) : PollTop(p)
    \/ \E p \in 1..Len(polls) : PollCheck(p)
    \/ \E p \in 1..Len(polls) : PollDecide(p)
    \/ \E p \in 1..Len(polls) : PollSleep(p)

SpecPoll == InitDisplayed /\ [][NextPoll]_vars

\* A host that starts a pairing poll only while none is wanted: the first
\* one, and later ones after stop_pairing_poll() or a reported result.
StartPollWhenIdle ==
    /\ ~polling
    /\ StartPairingPoll

NextStopPoll ==
    \/ Claim
    \/ StartPollWhenIdle
    \/ StopPairingPoll
    \/ \E p \in 1..Len(polls) : PollTop(p)
    \/ \E p \in 1..Len(polls) : PollCheck(p)
    \/ \E p \in 1..Len(polls) : PollDecide(p)
    \/ \E p \in 1..Len(polls) : PollSleep(p)

SpecStopPoll == InitDisplayed /\ [][NextStopPoll]_vars

\* The poll's callback was handed a claimed status: on_paired.
ObservedClaimed ==
    \E p \in 1..Len(polls) :
        \E j \in 1..Len(polls[p].calls) : status_of(polls[p].calls[j]) = "claimed"

\* start_relay_and_close, scheduled by on_paired: the pairing window starts
\* the relay.
StartRelayAndClose ==
    /\ ObservedClaimed
    /\ Len(loops) < MaxStarts
    /\ is_configured
    /\ start
    /\ UNCHANGED <<frontVars, toolVars, pairVars, clock, url, key, cmds, runs, online, faults>>

\* An installation with its pairing code on display and commands already
\* waiting in the table under its device id.
InitUnpaired ==
    /\ InitTools
    /\ InitHost
    /\ InitFront
    /\ cmds = [k \in 1..Queued |-> NewCommand(k, <<"echo", PyDict([text |-> "hi"])>>)]
    /\ runs = [n \in 1..Queued |-> 0]
    /\ \E draw \in Draws :
          /\ codes = <<NewPairing(make_code(draw), Epoch)>>
          /\ current_code = make_code(draw)
          /\ lastGen = Generated(make_code(draw))
    /\ polling = FALSE
    /\ polls = <<>>

\* The host: the pairing window polls for the claim and starts the relay on
\* success, and main_loop starts the relay.
NextHost ==
    \/ MainLoop
    \/ Claim
    \/ StartPollWhenIdle
    \/ StartRelayAndClose
    \/ \E p \in 1..Len(polls) : PollTop(p)
    \/ \E p \in 1..Len(polls) : PollCheck(p)
    \/ \E p \in 1..Len(polls) : PollDecide(p)
    \/ \E p \in 1..Len(polls) : PollSleep(p)
    \/ \E t \in 1..Len(loops) : LoopBegin(t)
    \/ \E t \in 1..Len(loops) : LoopFetch(t)
    \/ \E t \in 1..Len(loops) : LoopMark(t)
    \/ \E t \in 1..Len(loops) : LoopExecute(t)
    \/ \E t \in 1..Len(loops) : LoopSleep(t)

SpecHost == InitUnpaired /\ [][NextHost]_vars

(***************************************************************************)
(* cora_go.py and anchor/coramini.py: the chat front ends' command routers. *)
(* Text is a sequence of code points.                                      *)
(***************************************************************************)
Whitespace == {" ", "\t", "\n"}

UpperCase == <<"A", "B", "C", "D", "E", "F", "G", "H", "I", "J", "K", "L", "M",
               "N", "O", "P", "Q", "R", "S", "T", "U", "V", "W", "X", "Y", "Z">>
LowerCase == <<"a", "b", "c", "d", "e", "f", "g", "h", "i", "j", "k", "l", "m",
               "n", "o", "p", "q", "r", "s", "t", "u", "v", "w", "x", "y", "z">>

\* str.lower() on one code point: U+0130 (capital I with dot above) becomes
\* the two code points "i" and U+0307; every other code point stays one.
lower_point(c) ==
    IF c = "U+0130" THEN <<"i", "U+0307">>
    ELSE IF \E k \in 1..Len(UpperCase) : UpperCase[k] = c
         THEN <<LowerCase[CHOOSE k \in 1..Len(UpperCase) : UpperCase[k] = c]>>
         ELSE <<c>>

\* str.lower()
RECURSIVE lower(_)
lower(s) == IF s = <<>> THEN <<>> ELSE lower_point(Head(s)) \o lower(Tail(s))

\* s[n:]
From(s, n) == SubSeq(s, n + 1, Len(s))

\* s.startswith(prefix)
startswith(s, prefix) == Len(s) >= Len(prefix) /\ SubSeq(s, 1, Len(prefix)) = prefix

\* s.find(sub): the lowest index, -1 when absent
find(s, sub) ==
    IF IsSubstring(sub, s)
    THEN CHOOSE k \in 0..(Len(s) - Len(sub)) :
            /\ SubSeq(s, k + 1, k + Len(sub)) = sub
            /\ \A j \in 0..(k - 1) : SubSeq(s, j + 1, j + Len(sub)) # sub
    ELSE -1

\* s.strip(chars)
strip_chars(s, strip_set) ==
    LET kept == {k \in 1..Len(s) : s[k] \notin strip_set}
    IN IF kept = {} THEN <<>>
       ELSE SubSeq(s, CHOOSE k \in kept : \A j \in kept : k <= j,
                      CHOOSE k \in kept : \A j \in kept : j <= k)

\* s.strip()
strip(s) == strip_chars(s, Whitespace)

\* s.split(maxsplit=1): the first run of non-whitespace and, when anything
\* but whitespace follows it, the remainder from there on.
split_once(s) ==
    LET word == {k \in 1..Len(s) : s[k] \notin Whitespace}
        first == CHOOSE k \in word : \A j \in word : k <= j
        past == {k \in word : \E j \in first..k : s[j] \in Whitespace}
    IN IF word = {} THEN <<>>
       ELSE IF past = {}
            THEN <<SubSeq(s, first, CHOOSE k \in word : \A j \in word : j <= k)>>
            ELSE LET next == CHOOSE k \in past : \A j \in past : k <= j
                     stop_at == CHOOSE k \in first..next : s[k] \in Whitespace
                                    /\ \A j \in first..(k - 1) : s[j] \notin Whitespace
                 IN <<SubSeq(s, first, stop_at - 1), SubSeq(s, next, Len(s))>>

\* TOOLS of cora_go.py: the names the chat front end dispatches on, in
\* declared order (the registry variable TOOLS above is anchor.tools._TOOLS).
CliTools ==
    <<<<"r", "e", "a", "d", "_", "f", "i", "l", "e">>,
      <<"w", "r", "i", "t", "e", "_", "f", "i", "l", "e">>,
      <<"l", "i", "s", "t", "_", "f", "i", "l", "e", "s">>,
      <<"s", "e", "a", "r", "c", "h", "_", "f", "i", "l", "e", "s">>,
      <<"r", "u", "n", "_", "s", "h", "e", "l", "l">>,
      <<"s", "y", "s", "t", "e", "m", "_", "i", "n", "f", "o">>,
      <<"s", "c", "r", "e", "e", "n", "s", "h", "o", "t">>,
      <<"w", "e", "b", "_", "s", "e", "a", "r", "c", "h">>,
      <<"f", "e", "t", "c", "h", "_", "u", "r", "l">>, <<"w", "e", "a", "t", "h", "e", "r">>,
      <<"a", "d", "d", "_", "n", "o", "t", "e">>, <<"g", "e", "t", "_", "n", "o", "t", "e">>,
      <<"l", "i", "s", "t", "_", "n", "o", "t", "e", "s">>,
      <<"s", "e", "a", "r", "c", "h", "_", "n", "o", "t", "e", "s">>,
      <<"o", "l", "l", "a", "m", "a">>,
      <<"p", "o", "l", "l", "i", "n", "a", "t", "i", "o", "n", "s">>,
      <<"l", "i", "s", "t", "_", "m", "o", "d", "e", "l", "s">>,
      <<"s", "t", "a", "r", "t", "_", "s", "e", "n", "t", "i", "n", "e", "l">>,
      <<"s", "t", "o", "p", "_", "s", "e", "n", "t", "i", "n", "e", "l">>,
      <<"s", "e", "n", "t", "i", "n", "e", "l", "_", "s", "t", "a", "t", "u", "s">>,
      <<"i", "n", "c", "i", "d", "e", "n", "t", "s">>,
      <<"l", "i", "s", "t", "_", "b", "o", "t", "s">>,
      <<"l", "a", "u", "n", "c", "h", "_", "b", "o", "t">>,
      <<"s", "t", "o", "p", "_", "b", "o", "t">>,
      <<"r", "u", "n", "n", "i", "n", "g", "_", "b", "o", "t", "s">>,
      <<"s", "p", "e", "a", "k">>, <<"t", "t", "s", "_", "i", "n", "f", "o">>>>

\* tool_hints of detect_tool_intent, flattened in iteration order: the tools
\* in declared order, and each tool's hints in list order.
tool_hints ==
    <<[tool |-> <<"r", "e", "a", "d", "_", "f", "i", "l", "e">>, hint |-> <<"r", "e", "a", "d", " ", "f", "i", "l", "e">>],
      [tool |-> <<"r", "e", "a", "d", "_", "f", "i", "l", "e">>, hint |-> <<"s", "h", "o", "w", " ", "f", "i", "l", "e">>],
      [tool |-> <<"r", "e", "a", "d", "_", "f", "i", "l", "e">>, hint |-> <<"o", "p", "e", "n", " ", "f", "i", "l", "e">>],
      [tool |-> <<"r", "e", "a", "d", "_", "f", "i", "l", "e">>, hint |-> <<"c", "a", "t", " ">>],
      [tool |-> <<"w", "r", "i", "t", "e", "_", "f", "i", "l", "e">>, hint |-> <<"w", "r", "i", "t", "e", " ", "t", "o">>],
      [tool |-> <<"w", "r", "i", "t", "e", "_", "f", "i", "l", "e">>, hint |-> <<"s", "a", "v", "e", " ", "t", "o">>],
      [tool |-> <<"w", "r", "i", "t", "e", "_", "f", "i", "l", "e">>, hint |-> <<"c", "r", "e", "a", "t", "e", " ", "f", "i", "l", "e">>],
      [tool |-> <<"l", "i", "s", "t", "_", "f", "i", "l", "e", "s">>, hint |-> <<"l", "i", "s", "t", " ", "f", "i", "l", "e", "s">>],
      [tool |-> <<"l", "i", "s", "t", "_", "f", "i", "l", "e", "s">>, hint |-> <<"s", "h", "o", "w", " ", "f", "i", "l", "e", "s">>],
      [tool |-> <<"l", "i", "s", "t", "_", "f", "i", "l", "e", "s">>, hint |-> <<"l", "s", " ">>],
      [tool |-> <<"l", "i", "s", "t", "_", "f", "i", "l", "e", "s">>, hint |-> <<"d", "i", "r", " ">>],
      [tool |-> <<"s", "e", "a", "r", "c", "h", "_", "f", "i", "l", "e", "s">>, hint |-> <<"f", "i", "n", "d", " ", "f", "i", "l", "e", "s">>],
      [tool |-> <<"s", "e", "a", "r", "c", "h", "_", "f", "i", "l", "e", "s">>, hint |-> <<"s", "e", "a", "r", "c", "h", " ", "f", "i", "l", "e", "s">>],
      [tool |-> <<"s", "e", "a", "r", "c", "h", "_", "f", "i", "l", "e", "s">>, hint |-> <<"l", "o", "c", "a", "t", "e">>],
      [tool |-> <<"r", "u", "n", "_", "s", "h", "e", "l", "l">>, hint |-> <<"r", "u", "n", " ", "c", "o", "m", "m", "a", "n", "d">>],
      [tool |-> <<"r", "u", "n", "_", "s", "h", "e", "l", "l">>, hint |-> <<"e", "x", "e", "c", "u", "t", "e">>],
      [tool |-> <<"r", "u", "n", "_", "s", "h", "e", "l", "l">>, hint |-> <<"s", "h", "e", "l", "l", " ">>],
      [tool |-> <<"r", "u", "n", "_", "s", "h", "e", "l", "l">>, hint |-> <<"b", "a", "s", "h", " ">>],
      [tool |-> <<"s", "c", "r", "e", "e", "n", "s", "h", "o", "t">>, hint |-> <<"s", "c", "r", "e", "e", "n", "s", "h", "o", "t">>],
      [tool |-> <<"s", "c", "r", "e", "e", "n", "s", "h", "o", "t">>, hint |-> <<"c", "a", "p", "t", "u", "r", "e", " ", "s", "c", "r", "e", "e", "n">>],
      [tool |-> <<"w", "e", "b", "_", "s", "e", "a", "r", "c", "h">>, hint |-> <<"s", "e", "a", "r", "c", "h", " ", "f", "o", "r">>],
      [tool |-> <<"w", "e", "b", "_", "s", "e", "a", "r", "c", "h">>, hint |-> <<"l", "o", "o", "k", " ", "u", "p">>],
      [tool |-> <<"w", "e", "b", "_", "s", "e", "a", "r", "c", "h">>, hint |-> <<"g", "o", "o", "g", "l", "e">>],
      [tool |-> <<"w", "e", "b", "_", "s", "e", "a", "r", "c", "h">>, hint |-> <<"f", "i", "n", "d", " ", "o", "n", "l", "i", "n", "e">>],
      [tool |-> <<"f", "e", "t", "c", "h", "_", "u", "r", "l">>, hint |-> <<"f", "e", "t", "c", "h", " ", "u", "r", "l">>],
      [tool |-> <<"f", "e", "t", "c", "h", "_", "u", "r", "l">>, hint |-> <<"g", "e", "t", " ", "p", "a", "g", "e">>],
      [tool |-> <<"f", "e", "t", "c", "h", "_", "u", "r", "l">>, hint |-> <<"d", "o", "w", "n", "l", "o", "a", "d", " ", "p", "a", "g", "e">>],
      [tool |-> <<"w", "e", "a", "t", "h", "e", "r">>, hint |-> <<"w", "e", "a", "t", "h", "e", "r", " ", "i", "n">>],
      [tool |-> <<"w", "e", "a", "t", "h", "e", "r">>, hint |-> <<"w", "e", "a", "t", "h", "e", "r", " ", "f", "o", "r">>],
      [tool |-> <<"w", "e", "a", "t", "h", "e", "r">>, hint |-> <<"w", "h", "a", "t", "'", "s", " ", "t", "h", "e", " ", "w", "e", "a", "t", "h", "e", "r">>],
      [tool |-> <<"a", "d", "d", "_", "n", "o", "t", "e">>, hint |-> <<"s", "a", "v", "e", " ", "n", "o", "t", "e">>],
      [tool |-> <<"a", "d", "d", "_", "n", "o", "t", "e">>, hint |-> <<"r", "e", "m", "e", "m", "b", "e", "r">>],
      [tool |-> <<"a", "d", "d", "_", "n", "o", "t", "e">>, hint |-> <<"a", "d", "d", " ", "n", "o", "t", "e">>],
      [tool |-> <<"g", "e", "t", "_", "n", "o", "t", "e">>, hint |-> <<"g", "e", "t", " ", "n", "o", "t", "e">>],
      [tool |-> <<"g", "e", "t", "_", "n", "o", "t", "e">>, hint |-> <<"r", "e", "c", "a", "l", "l">>],
      [tool |-> <<"g", "e", "t", "_", "n", "o", "t", "e">>, hint |-> <<"w", "h", "a", "t", " ", "w", "a", "s">>],
      [tool |-> <<"l", "i", "s", "t", "_", "n", "o", "t", "e", "s">>, hint |-> <<"l", "i", "s", "t", " ", "n", "o", "t", "e", "s">>],
      [tool |-> <<"l", "i", "s", "t", "_", "n", "o", "t", "e", "s">>, hint |-> <<"s", "h", "o", "w", " ", "n", "o", "t", "e", "s">>],
      [tool |-> <<"l", "i", "s", "t", "_", "n", "o", "t", "e", "s">>, hint |-> <<"m", "y", " ", "n", "o", "t", "e", "s">>],
      [tool |-> <<"s", "e", "a", "r", "c", "h", "_", "n", "o", "t", "e", "s">>, hint |-> <<"s", "e", "a", "r", "c", "h", " ", "n", "o", "t", "e", "s">>],
      [tool |-> <<"s", "e", "a", "r", "c", "h", "_", "n", "o", "t", "e", "s">>, hint |-> <<"f", "i", "n", "d", " ", "n", "o", "t", "e">>],
      [tool |-> <<"s", "t", "a", "r", "t", "_", "s", "e", "n", "t", "i", "n", "e", "l">>, hint |-> <<"s", "t", "a", "r", "t", " ", "s", "e", "n", "t", "i", "n", "e", "l">>],
      [tool |-> <<"s", "t", "a", "r", "t", "_", "s", "e", "n", "t", "i", "n", "e", "l">>, hint |-> <<"b", "e", "g", "i", "n", " ", "m", "o", "n", "i", "t", "o", "r", "i", "n", "g">>],
      [tool |-> <<"s", "t", "a", "r", "t", "_", "s", "e", "n", "t", "i", "n", "e", "l">>, hint |-> <<"l", "i", "s", "t", "e", "n">>],
      [tool |-> <<"s", "t", "o", "p", "_", "s", "e", "n", "t", "i", "n", "e", "l">>, hint |-> <<"s", "t", "o", "p", " ", "s", "e", "n", "t", "i", "n", "e", "l">>],
      [tool |-> <<"s", "t", "o", "p", "_", "s", "e", "n", "t", "i", "n", "e", "l">>, hint |-> <<"s", "t", "o", "p", " ", "m", "o", "n", "i", "t", "o", "r", "i", "n", "g">>],
      [tool |-> <<"s", "t", "o", "p", "_", "s", "e", "n", "t", "i", "n", "e", "l">>, hint |-> <<"s", "t", "o", "p", " ", "l", "i", "s", "t", "e", "n", "i", "n", "g">>],
      [tool |-> <<"s", "e", "n", "t", "i", "n", "e", "l", "_", "s", "t", "a", "t", "u", "s">>, hint |-> <<"s", "e", "n", "t", "i", "n", "e", "l", " ", "s", "t", "a", "t", "u", "s">>],
      [tool |-> <<"s", "e", "n", "t", "i", "n", "e", "l", "_", "s", "t", "a", "t", "u", "s">>, hint |-> <<"m", "o", "n", "i", "t", "o", "r", "i", "n", "g", " ", "s", "t", "a", "t", "u", "s">>],
      [tool |-> <<"i", "n", "c", "i", "d", "e", "n", "t", "s">>, hint |-> <<"s", "h", "o", "w", " ", "i", "n", "c", "i", "d", "e", "n", "t", "s">>],
      [tool |-> <<"i", "n", "c", "i", "d", "e", "n", "t", "s">>, hint |-> <<"w", "h", "a", "t", " ", "h", "a", "p", "p", "e", "n", "e", "d">>],
      [tool |-> <<"i", "n", "c", "i", "d", "e", "n", "t", "s">>, hint |-> <<"a", "u", "d", "i", "o", " ", "i", "n", "c", "i", "d", "e", "n", "t", "s">>],
      [tool |-> <<"l", "i", "s", "t", "_", "b", "o", "t", "s">>, hint |-> <<"l", "i", "s", "t", " ", "b", "o", "t", "s">>],
      [tool |-> <<"l", "i", "s", "t", "_", "b", "o", "t", "s">>, hint |-> <<"a", "v", "a", "i", "l", "a", "b", "l", "e", " ", "b", "o", "t", "s">>],
      [tool |-> <<"l", "i", "s", "t", "_", "b", "o", "t", "s">>, hint |-> <<"s", "h", "o", "w", " ", "b", "o", "t", "s">>],
      [tool |-> <<"l", "a", "u", "n", "c", "h", "_", "b", "o", "t">>, hint |-> <<"l", "a", "u", "n", "c", "h">>],
      [tool |-> <<"l", "a", "u", "n", "c", "h", "_", "b", "o", "t">>, hint |-> <<"s", "t", "a", "r", "t", " ", "b", "o", "t">>],
      [tool |-> <<"l", "a", "u", "n", "c", "h", "_", "b", "o", "t">>, hint |-> <<"r", "u", "n", " ", "b", "o", "t">>],
      [tool |-> <<"s", "t", "o", "p", "_", "b", "o", "t">>, hint |-> <<"s", "t", "o", "p", " ", "b", "o", "t">>],
      [tool |-> <<"s", "t", "o", "p", "_", "b", "o", "t">>, hint |-> <<"k", "i", "l", "l", " ", "b", "o", "t">>],
      [tool |-> <<"s", "t", "o", "p", "_", "b", "o", "t">>, hint |-> <<"t", "e", "r", "m", "i", "n", "a", "t", "e">>],
      [tool |-> <<"r", "u", "n", "n", "i", "n", "g", "_", "b", "o", "t", "s">>, hint |-> <<"r", "u", "n", "n", "i", "n", "g", " ", "b", "o", "t", "s">>],
      [tool |-> <<"r", "u", "n", "n", "i", "n", "g", "_", "b", "o", "t", "s">>, hint |-> <<"a", "c", "t", "i", "v", "e", " ", "b", "o", "t", "s">>],
      [tool |-> <<"s", "p", "e", "a", "k">>, hint |-> <<"s", "a", "y", " ">>],
      [tool |-> <<"s", "p", "e", "a", "k">>, hint |-> <<"s", "p", "e", "a", "k", " ">>],
      [tool |-> <<"s", "p", "e", "a", "k">>, hint |-> <<"t", "e", "l", "l", " ", "m", "e">>],
      [tool |-> <<"l", "i", "s", "t", "_", "m", "o", "d", "e", "l", "s">>, hint |-> <<"l", "i", "s", "t", " ", "m", "o", "d", "e", "l", "s">>],
      [tool |-> <<"l", "i", "s", "t", "_", "m", "o", "d", "e", "l", "s">>, hint |-> <<"a", "v", "a", "i", "l", "a", "b", "l", "e", " ", "m", "o", "d", "e", "l", "s">>],
      [tool |-> <<"l", "i", "s", "t", "_", "m", "o", "d", "e", "l", "s">>, hint |-> <<"o", "l", "l", "a", "m", "a", " ", "m", "o", "d", "e", "l", "s">>]>>

\* tool_keywords of Coramini.extract_command, in declared order.
tool_keywords ==
    <<[keyword |-> <<"s", "y", "s", "t", "e", "m">>, tool |-> <<"s", "y", "s", "t", "e", "m", "_", "i", "n", "f", "o">>],
      [keyword |-> <<"s", "t", "a", "t", "u", "s">>, tool |-> <<"s", "y", "s", "t", "e", "m", "_", "i", "n", "f", "o">>],
      [keyword |-> <<"t", "i", "m", "e">>, tool |-> <<"g", "e", "t", "_", "t", "i", "m", "e">>],
      [keyword |-> <<"w", "e", "a", "t", "h", "e", "r">>, tool |-> <<"g", "e", "t", "_", "w", "e", "a", "t", "h", "e", "r">>],
      [keyword |-> <<"c", "l", "i", "p", "b", "o", "a", "r", "d">>, tool |-> <<"g", "e", "t", "_", "c", "l", "i", "p", "b", "o", "a", "r", "d">>],
      [keyword |-> <<"s", "c", "r", "e", "e", "n", "s", "h", "o", "t">>, tool |-> <<"t", "a", "k", "e", "_", "s", "c", "r", "e", "e", "n", "s", "h", "o", "t">>],
      [keyword |-> <<"n", "o", "t", "e", "s">>, tool |-> <<"l", "i", "s", "t", "_", "n", "o", "t", "e", "s">>],
      [keyword |-> <<"b", "o", "t", "s">>, tool |-> <<"l", "i", "s", "t", "_", "b", "o", "t", "s">>],
      [keyword |-> <<"s", "a", "y">>, tool |-> <<"s", "p", "e", "a", "k">>],
      [keyword |-> <<"s", "p", "e", "a", "k">>, tool |-> <<"s", "p", "e", "a", "k">>]>>

\* What a router comes to: a tool with its argument, nothing, or an
\* exception out of the router.
Intent(tool, arg) == [kind |-> "tool", tool |-> tool, arg |-> arg]
NoIntent == [kind |-> "none"]
IndexError == [kind |-> "raise", msg |-> "list index out of range"]

InCliTools(name) == \E k \in 1..Len(CliTools) : CliTools[k] = name

\* The natural-language loop of detect_tool_intent: the first hint, in
\* table order, found in the lower-cased message; the argument is cut from
\* the original message at the index found in the lower-cased one.
keyword_intent(message) ==
    LET message_lower == lower(message)
        hits == {k \in 1..Len(tool_hints) : IsSubstring(tool_hints[k].hint, message_lower)}
    IN IF hits = {} THEN NoIntent
       ELSE LET hit == tool_hints[CHOOSE k \in hits : \A j \in hits : k <= j]
                idx == find(message_lower, hit.hint)
            IN Intent(hit.tool, strip(From(message, idx + Len(hit.hint))))

\* A router that tries the keywords before the slash command.
detect_tool_intent_keywords_first(message) ==
    LET parts == split_once(From(message, 1))
    IN IF keyword_intent(message) # NoIntent THEN keyword_intent(message)
       ELSE IF startswith(lower(message), <<"/">>) /\ parts # <<>> /\ InCliTools(parts[1])
            THEN Intent(parts[1], IF Len(parts) > 1 THEN parts[2] ELSE <<>>)
            ELSE NoIntent

\* detect_tool_intent(message); parts[0] of an empty split raises IndexError.
detect_tool_intent(message) ==
    LET parts == split_once(From(message, 1))
    IN IF startswith(lower(message), <<"/">>)
       THEN IF parts = <<>> THEN IndexError
            ELSE IF InCliTools(parts[1])
                 THEN Intent(parts[1], IF Len(parts) > 1 THEN parts[2] ELSE <<>>)
                 ELSE keyword_intent(message)
       ELSE keyword_intent(message)

\* Coramini.extract_command: the first keyword, in table order, found in the
\* lower-cased text; only speak takes a parameter, cut after the first of
\* the triggers "say " and "speak " that the text contains.
Command(tool, params) == [kind |-> "tool", tool |-> tool, params |-> params]
NoParams == [kind |-> "empty"]
TextParam(text) == [kind |-> "text", text |-> text]

speak_triggers == <<<<"s", "a", "y", " ">>, <<"s", "p", "e", "a", "k", " ">>>>

extract_command(text) ==
    LET text_lower == lower(text)
        hits == {k \in 1..Len(tool_keywords) : IsSubstring(tool_keywords[k].keyword, text_lower)}
        tool == tool_keywords[CHOOSE k \in hits : \A j \in hits : k <= j].tool
        found == {k \in 1..Len(speak_triggers) : IsSubstring(speak_triggers[k], text_lower)}
        trigger == speak_triggers[CHOOSE k \in found : \A j \in found : k <= j]
        idx == find(text_lower, trigger) + Len(trigger)
    IN IF hits = {} THEN NoIntent
       ELSE IF tool = <<"s", "p", "e", "a", "k">> /\ found # {}
            THEN Command(tool, TextParam(strip_chars(strip_chars(strip(From(text, idx)),
                                                                 {"\""}), {"'"})))
            ELSE Command(tool, NoParams)

\* One turn of interactive_mode on a line the user typed: the host's own
\* commands first, then the router, then the AI backend.
HostCommands == {<<"/", "q", "u", "i", "t">>, <<"/", "e", "x", "i", "t">>, <<"/", "q">>, <<"/", "h", "e", "l", "p">>, <<"/", "t", "o", "o", "l", "s">>}
HostSettings == {<<"/", "p", "e", "r", "s", "o", "n", "a", " ">>, <<"/", "b", "a", "c", "k", "e", "n", "d", " ">>, <<"/", "m", "o", "d", "e", "l", " ">>, <<"/", "v", "o", "i", "c", "e", " ">>}

interactive_turn(line) ==
    LET user_input == strip(line)
        tool_result == detect_tool_intent(user_input)
    IN IF user_input = <<>> THEN [kind |-> "continue"]
       ELSE IF lower(user_input) \in HostCommands
                 \/ \E prefix \in HostSettings : startswith(lower(user_input), prefix)
            THEN [kind |-> "host"]
            ELSE IF tool_result.kind = "raise" THEN [kind |-> "raise", msg |-> tool_result.msg]
                 ELSE IF tool_result.kind = "tool"
                      THEN [kind |-> "execute_tool", tool |-> tool_result.tool,
                            arg |-> tool_result.arg]
                      ELSE [kind |-> "query_ai", prompt |-> user_input]

\* Lines a user may type: a beginning and an ending, put together.
Heads ==
    {<<>>,
     <<"/">>,
     <<"/", "s", "y", "s", "t", "e", "m", "_", "i", "n", "f", "o">>,
     <<"/", "s", "p", "e", "a", "k">>,
     <<"/", "S", "P", "E", "A", "K">>,
     <<"/", "n", "o", "s", "u", "c", "h">>,
     <<"/", " ", "w", "e", "a", "t", "h", "e", "r">>,
     <<"s", "a", "y">>,
     <<"S", "a", "y">>,
     <<"p", "l", "e", "a", "s", "e", " ", "s", "p", "e", "a", "k">>,
     <<"w", "e", "a", "t", "h", "e", "r", " ", "i", "n">>,
     <<"U+0130", " ", "s", "a", "y">>,
     <<"t", "e", "l", "l", " ", "m", "e">>,
     <<"w", "h", "a", "t", " ", "i", "s">>,
     <<"/", "h", "e", "l", "p">>,
     <<"r", "u", "n", " ", "c", "o", "m", "m", "a", "n", "d", " ", "t", "h", "e", "n", " ", "s", "a", "y">>}

Tails ==
    {<<>>,
     <<" ">>,
     <<" ", "h", "e", "l", "l", "o", " ", "t", "h", "e", "r", "e">>,
     <<" ", " ", "H", "e", "l", "l", "o", " ", "T", "h", "e", "r", "e", " ">>,
     <<" ", "s", "a", "y", " ", "h", "i">>,
     <<" ", "\"", "h", "i", "\"">>,
     <<" ", "t", "h", "e", " ", "w", "e", "a", "t", "h", "e", "r", " ", "f", "o", "r", " ", "O", "s", "l", "o">>,
     <<" ", "l", "i", "s", "t", "e", "n", "\t", "u", "p">>}

Messages == {head \o tail : head \in Heads, tail \in Tails}

InitRouter ==
    /\ InitTools
    /\ InitRelay
    /\ InitPairing
    /\ typed \in Messages
    /\ intent = Unrouted
    /\ command = Unrouted
    /\ turn = Unrouted
    /\ InitMini
    /\ InitVoice

DetectToolIntent ==
    /\ intent = Unrouted
    /\ intent' = detect_tool_intent(typed)
    /\ UNCHANGED <<toolVars, relayVars, pairVars, miniVars, voiceVars, typed, command, turn>>

ExtractCommand ==
    /\ command = Unrouted
    /\ command' = extract_command(typed)
    /\ UNCHANGED <<toolVars, relayVars, pairVars, miniVars, voiceVars, typed, intent, turn>>

InteractiveTurn ==
    /\ turn = Unrouted
    /\ turn' = interactive_turn(typed)
    /\ UNCHANGED <<toolVars, relayVars, pairVars, miniVars, voiceVars, typed, intent, command>>

NextRouter == DetectToolIntent \/ ExtractCommand \/ InteractiveTurn

SpecRouter == InitRouter /\ [][NextRouter]_vars

(***************************************************************************)
(* anchor/coramini.py: the chat assistant's poll loop on cora_chat.        *)
(***************************************************************************)
MaxChat == 4      \* rows the cora_chat table may hold

\* self.bot_name
BotName == <<"C", "O", "R", "A", "M", "I", "N", "I">>

UserName == <<"U", "s", "e", "r">>

\* What a user may post: a question, a plain remark, a mention.
ChatTexts ==
    {<<"h", "i", "?">>,
     <<"y", "o">>,
     <<"@", "c", "o", "r", "a", " ", "y", "o">>}

\* fetch_recent_messages(10)
WindowLimit == 10

\* s.endswith(suffix)
endswith(s, suffix) ==
    Len(s) >= Len(suffix) /\ SubSeq(s, Len(s) - Len(suffix) + 1, Len(s)) = suffix

Mentions == {<<"@", "c", "o", "r", "a", "m", "i", "n", "i">>, <<"@", "c", "o", "r", "a">>, <<"@", "m", "i", "n", "i">>}

command_prefixes ==
    {<<"r", "u", "n", " ">>, <<"e", "x", "e", "c", "u", "t", "e", " ">>, <<"d", "o", " ">>,
     <<"p", "l", "e", "a", "s", "e", " ">>, <<"c", "a", "n", " ", "y", "o", "u", " ">>}

\* Coramini.should_respond
should_respond(msg) ==
    LET sender == lower(msg.sender)
        text == lower(msg.message)
    IN IF lower(sender) = lower(BotName) THEN FALSE
       ELSE \/ \E mention \in Mentions : IsSubstring(mention, text)
            \/ endswith(text, <<"?">>)
            \/ \E prefix \in command_prefixes : startswith(text, prefix)

Reverse(s) == [k \in 1..Len(s) |-> s[Len(s) + 1 - k]]

\* get_cora_chat: the latest p_limit rows, newest first; [] when the request
\* fails.
fetch_recent_messages(rows, limit, ok) ==
    IF ok
    THEN Reverse(SubSeq(rows, IF Len(rows) > limit THEN Len(rows) - limit + 1 ELSE 1, Len(rows)))
    ELSE <<>>

\* A user posts a message.
PostChat ==
    /\ Len(chat) < MaxChat
    /\ \E text \in ChatTexts :
          chat' = Append(chat, [id |-> Len(chat) + 1, sender |-> UserName, message |-> text])
    /\ answered' = Append(answered, 0)
    /\ UNCHANGED <<toolVars, relayVars, pairVars, routerVars, voiceVars, last_message_id, mini>>

\* Coramini.start()
StartMini ==
    /\ mini' = IF mini.running THEN mini
               ELSE [running |-> TRUE, pc |-> "top", batch |-> <<>>, i |-> 0]
    /\ UNCHANGED <<toolVars, relayVars, pairVars, routerVars, voiceVars, chat,
                   last_message_id, answered>>

\* `while self.running:`
MiniTop ==
    /\ mini.pc = "top"
    /\ mini' = [mini EXCEPT !.pc = IF mini.running THEN "fetch" ELSE "exited"]
    /\ UNCHANGED <<toolVars, relayVars, pairVars, routerVars, voiceVars, chat,
                   last_message_id, answered>>

\* messages = list(reversed(self.fetch_recent_messages(10))), kept by id
MiniFetch ==
    /\ mini.pc = "fetch"
    /\ \E ok \in UrlopenOutcomes :
          LET messages == Reverse(fetch_recent_messages(chat, WindowLimit, ok))
          IN /\ mini' = IF messages = <<>>
                        THEN [mini EXCEPT !.pc = "sleep"]
                        ELSE [mini EXCEPT !.pc = "handle", !.i = 1,
                                          !.batch = [k \in 1..Len(messages) |-> messages[k].id]]
             /\ faults' = IF ok THEN faults ELSE faults + 1
    /\ UNCHANGED <<toolVars, relayRest, clock, pairVars, routerVars, voiceVars, chat,
                   last_message_id, answered>>

\* if msg_id and msg_id != self.last_message_id
is_new_message(msg_id) == msg_id # 0 /\ msg_id # last_message_id

\* One message of the for loop: the last-id test, should_respond, and the
\* response posted to cora_chat.  A response needs a free row in the table.
MiniHandle ==
    /\ mini.pc = "handle"
    /\ LET msg_id == mini.batch[mini.i]
           msg == chat[msg_id]
           responds == is_new_message(msg_id) /\ should_respond(msg)
       IN /\ responds => Len(chat) < MaxChat
          /\ last_message_id' = IF is_new_message(msg_id) THEN msg_id ELSE last_message_id
          /\ IF responds
             THEN \E ok \in UrlopenOutcomes :
                     /\ faults' = IF ok THEN faults ELSE faults + 1
                     /\ chat' = IF ok
                                THEN Append(chat, [id |-> Len(chat) + 1, sender |-> BotName,
                                                   message |-> msg.message])
                                ELSE chat
                     /\ answered' = IF ok
                                    THEN Append([answered EXCEPT ![msg_id] = @ + 1], 0)
                                    ELSE [answered EXCEPT ![msg_id] = @ + 1]
             ELSE UNCHANGED <<faults, chat, answered>>
          /\ mini' = IF mini.i = Len(mini.batch)
                     THEN [mini EXCEPT !.pc = "sleep", !.batch = <<>>, !.i = 0]
                     ELSE [mini EXCEPT !.i = @ + 1]
    /\ UNCHANGED <<toolVars, relayRest, clock, pairVars, routerVars, voiceVars>>

\* time.sleep(self.poll_interval)
MiniSleep ==
    /\ mini.pc = "sleep"
    /\ mini' = [mini EXCEPT !.pc = "top"]
    /\ UNCHANGED <<toolVars, relayVars, pairVars, routerVars, voiceVars, chat,
                   last_message_id, answered>>

NextMini == PostChat \/ StartMini \/ MiniTop \/ MiniFetch \/ MiniHandle \/ MiniSleep

SpecMini == Init /\ [][NextMini]_vars

(***************************************************************************)
(* anchor/tools/voice.py: speech output.  speak() puts a text on           *)
(* _tts_queue (a queue.Queue, whose count of unfinished tasks is what      *)
(* join() waits for); the worker thread takes the texts one at a time;     *)
(* stop_speaking() empties the queue.                                      *)
(***************************************************************************)
MaxSpeaks == 3
MaxStops == 1

SpeakTexts == {"a", "b"}

\* queue.Queue.put: the item is appended and counted as unfinished.
\* speak(text, block): the worker thread is started when there is none, the
\* text is put, and a blocking call goes on to _tts_queue.join().
Speak ==
    /\ Len(speaks) < MaxSpeaks
    /\ \E text \in SpeakTexts, block \in BOOLEAN :
          /\ tts_queue' = Append(tts_queue, text)
          /\ speaks' = Append(speaks, [text |-> text, block |-> block,
                                       pc |-> IF block THEN "join" ELSE "returned"])
    /\ unfinished_tasks' = unfinished_tasks + 1
    /\ tts_thread' = IF tts_thread.alive THEN tts_thread
                     ELSE [alive |-> TRUE, pc |-> "get", text |-> ""]
    /\ UNCHANGED <<toolVars, relayVars, pairVars, routerVars, miniVars, spoken, stopping>>

\* queue.Queue.join() returns when no task is unfinished.
JoinReturns(c) ==
    /\ speaks[c].pc = "join"
    /\ unfinished_tasks = 0
    /\ speaks' = [speaks EXCEPT ![c].pc = "returned"]
    /\ UNCHANGED <<toolVars, relayVars, pairVars, routerVars, miniVars, tts_queue,
                   unfinished_tasks, tts_thread, spoken, stopping>>

\* text = _tts_queue.get(timeout=1); on queue.Empty the loop tries again.
WorkerGet ==
    /\ tts_thread.alive
    /\ tts_thread.pc = "get"
    /\ tts_queue # <<>>
    /\ tts_thread' = [tts_thread EXCEPT !.pc = "speak", !.text = Head(tts_queue)]
    /\ tts_queue' = Tail(tts_queue)
    /\ UNCHANGED <<toolVars, relayVars, pairVars, routerVars, miniVars, unfinished_tasks,
                   speaks, spoken, stopping>>

\* _speak_sync(text): it catches every exception of the engine.
WorkerSpeak ==
    /\ tts_thread.pc = "speak"
    /\ spoken' = Append(spoken, tts_thread.text)
    /\ tts_thread' = [tts_thread EXCEPT !.pc = "task_done"]
    /\ UNCHANGED <<toolVars, relayVars, pairVars, routerVars, miniVars, tts_queue,
                   unfinished_tasks, speaks, stopping>>

\* _tts_queue.task_done()
WorkerTaskDone ==
    /\ tts_thread.pc = "task_done"
    /\ unfinished_tasks' = unfinished_tasks - 1
    /\ tts_thread' = [tts_thread EXCEPT !.pc = "get", !.text = ""]
    /\ UNCHANGED <<toolVars, relayVars, pairVars, routerVars, miniVars, tts_queue,
                   speaks, spoken, stopping>>

\* stop_speaking() is called.
StopSpeaking ==
    /\ ~stopping.draining
    /\ stopping.calls < MaxStops
    /\ stopping' = [calls |-> stopping.calls + 1, draining |-> TRUE]
    /\ UNCHANGED <<toolVars, relayVars, pairVars, routerVars, miniVars, tts_queue,
                   unfinished_tasks, tts_thread, speaks, spoken>>

\* `while not _tts_queue.empty(): _tts_queue.get_nowait()`: one turn of the
\* loop.  get_nowait() takes the item; nothing marks it as done.
StopDrain ==
    /\ stopping.draining
    /\ IF tts_queue = <<>>
       THEN /\ stopping' = [stopping EXCEPT !.draining = FALSE]
            /\ UNCHANGED tts_queue
       ELSE /\ tts_queue' = Tail(tts_queue)
            /\ UNCHANGED stopping
    /\ UNCHANGED <<toolVars, relayVars, pairVars, routerVars, miniVars, unfinished_tasks,
                   tts_thread, speaks, spoken>>

WorkerStep == WorkerGet \/ WorkerSpeak \/ WorkerTaskDone

NextVoice ==
    \/ Speak
    \/ \E c \in 1..Len(speaks) : JoinReturns(c)
    \/ WorkerGet
    \/ WorkerSpeak
    \/ WorkerTaskDone
    \/ StopSpeaking
    \/ StopDrain

SpecVoice == Init /\ [][NextVoice]_vars

\* The worker is a thread of its own, and so is every caller: each of them
\* goes on whenever it can.
FairVoice ==
    /\ SpecVoice
    /\ WF_vars(WorkerStep)
    /\ WF_vars(StopDrain)
    /\ \A c \in 1..MaxSpeaks : WF_vars(c <= Len(speaks) /\ JoinReturns(c))

(***************************************************************************)
(* Properties of the registry and the executor                             *)
(***************************************************************************)
\* A direct execute_tool call has just been made (it is recorded in lastExec').
Called == lastExec' # lastExec

\* C1: for a registered name and any argument value, execute_tool returns and
\* never raises; when the handler call raises (a fault in its body, arguments
\* that do not fit, a non-mapping), the value returned is {error: <message>}.
C1_NeverPropagates ==
    [][(Called /\ lastExec'.name \in Names(TOOLS)) =>
          LET r == py_call(get_tool(TOOLS, lastExec'.name).func, lastExec'.args)
          IN /\ ~lastExec'.out.raised
             /\ r.raised => lastExec'.out.value = PyDict([error |-> r.msg])
             /\ ~r.raised => lastExec'.out.value = r.value]_vars

\* C1's case: a registered tool called with JSON null came back as an error value.
C1_Witness ==
    /\ lastExec.name = "echo"
    /\ lastExec.args = PyNone
    /\ ~lastExec.out.raised
    /\ lastExec.out.value = PyDict([error |-> "argument after ** must be a mapping"])

\* C2: for a name that is not registered, execute_tool returns exactly
\* {error: "Unknown tool: <name>"}, invokes no handler and leaves the registry
\* as it was.
C2_UnknownTool ==
    [][(Called /\ lastExec'.name \notin Names(TOOLS)) =>
          /\ lastExec'.out =
                Executed(Return(PyDict([error |-> "Unknown tool: " \o lastExec'.name])), <<>>)
          /\ TOOLS' = TOOLS]_vars

\* C2's case: an unregistered name was asked for, with tools registered.
C2_Witness ==
    /\ lastExec.name = "nonexistent_tool_xyz"
    /\ lastExec.out.calls = <<>>
    /\ lastExec.out.value = PyDict([error |-> "Unknown tool: nonexistent_tool_xyz"])
    /\ Len(TOOLS) > 0

(***************************************************************************)
(* Properties of the relay                                                 *)
(***************************************************************************)
Rank(status) ==
    CASE status = "pending" -> 0
      [] status = "running" -> 1
      [] status \in {"done", "error"} -> 2

Pc(t) == loops[t].pc

\* The command a loop has in hand inside execute_command.
Current(t) == loops[t].batch[loops[t].i]

InHand(id) == \E t \in 1..Len(loops) : Pc(t) \in {"mark", "tool"} /\ Current(t) = id

\* The value carries an error key: it is a mapping with the key "error".
HasErrorKey(v) == v.t = "dict" /\ "error" \in DOMAIN v.d

\* What execute_tool returns for a command row.
Returned(c) == execute_tool(TOOLS, c.command, c.params).value

\* C3: once a relay cycle has processed a command (and no request failed), its
\* status is done exactly when the value execute_tool returned carries no
\* error key and error otherwise, its result is that value, and completed_at
\* is set.
C3_TerminalMatchesResult ==
    \A k \in 1..Len(cmds) :
        (faults = 0 /\ runs[cmds[k].id] >= 1 /\ ~InHand(cmds[k].id)) =>
            /\ cmds[k].status = IF HasErrorKey(Returned(cmds[k])) THEN "error" ELSE "done"
            /\ cmds[k].result = Returned(cmds[k])
            /\ cmds[k].completed_at # "null"

\* C4: no update moves a command's status backward along
\* pending -> running -> {done, error}.
C4_StatusMovesForward ==
    [][\A k \in 1..Len(cmds) : Rank(cmds'[k].status) >= Rank(cmds[k].status)]_vars

\* C5: a fetch returns only commands that are pending, so a command that was
\* marked running is in no later cycle's batch; and a command left in running
\* that no cycle has in hand stays running and is not executed again.
C5_RunningNeverRefetched ==
    [][\A t \in 1..Len(loops) :
          /\ Pc(t) = "fetch" =>
                \A k \in 1..Len(loops'[t].batch) :
                    Row(cmds, loops'[t].batch[k]).status = "pending"
          /\ \A k \in 1..Len(cmds) :
                (cmds[k].status = "running" /\ ~InHand(cmds[k].id)) =>
                    /\ cmds'[k].status = "running"
                    /\ runs'[cmds[k].id] = runs[cmds[k].id]]_vars

\* C5's case: command 1 was left in running by an earlier cycle, and a later
\* cycle has fetched command 2 without it.
C5_Witness ==
    /\ Len(cmds) = 2
    /\ cmds[1].status = "running"
    /\ Len(loops) = 1
    /\ Pc(1) = "mark"
    /\ loops[1].batch = <<2>>

\* C6: while the relay keeps running and no request fails, a command is in
\* running only while the cycle that marked it is executing it: the same cycle
\* marks it done or error, whatever the handler returns or raises.
C6_MarkedReachesTerminal ==
    (running /\ faults = 0) =>
        \A k \in 1..Len(cmds) :
            cmds[k].status = "running" =>
                \E t \in 1..Len(loops) : Pc(t) = "tool" /\ Current(t) = cmds[k].id

\* C8: a start() call while the relay is already running spawns no loop.
C8_StartIdempotent ==
    [][running => Len(loops') = Len(loops)]_vars

C9_StopEndsLoop ==
    /\ [][\A t \in 1..Len(loops) :
             /\ (Pc(t) = "top" /\ loops'[t].pc \notin {"top", "exited"}) => running
             /\ (Pc(t) # "top" /\ loops'[t].pc \in {"fetch", "mark", "tool"}) =>
                   Pc(t) \in {"fetch", "mark", "tool"}]_vars
    /\ [][(Stop /\ ~running) => UNCHANGED vars]_vars
    /\ <>[](~running) => <>[](\A t \in 1..Len(loops) : Pc(t) = "exited")

\* C9's case: the relay was stopped after it had processed a command, and its
\* loop has exited.
C9_Witness ==
    /\ ~running
    /\ Len(loops) = 1
    /\ Pc(1) = "exited"
    /\ \E k \in 1..Len(cmds) : cmds[k].status = "done"

\* C10: a poll loop ends only by finding the flag cleared at the top of an
\* iteration: whatever fails inside a cycle, the loop goes on within the cycle
\* or to the sleep, from the sleep to the top, and it can always take its
\* next step.
C10_FaultsNeverEndLoop ==
    /\ [][\A t \in 1..Len(loops) :
             /\ (Pc(t) # "exited" /\ loops'[t].pc = "exited") => (Pc(t) = "top" /\ ~running)
             /\ Pc(t) \in {"fetch", "mark", "tool"} =>
                   loops'[t].pc \in {"fetch", "mark", "tool", "sleep"}
             /\ Pc(t) = "sleep" => loops'[t].pc \in {"sleep", "top"}]_vars
    /\ [](\A t \in 1..Len(loops) : Pc(t) # "exited" => ENABLED LoopStep(t))

\* C10's case: the handler's result made execute_command raise and a request
\* failed, and the loop is in a later cycle.
C10_Witness ==
    /\ running
    /\ faults > 0
    /\ Len(loops) = 1
    /\ Pc(1) = "fetch"
    /\ \E k \in 1..Len(cmds) :
          /\ cmds[k].command = "t_none"
          /\ cmds[k].status = "running"
          /\ runs[cmds[k].id] = 1

\* C11: start() on a relay whose url or key is empty returns False, spawns no
\* loop and leaves the running flag and the remote tables alone; it returns
\* True only when it has spawned a loop; and a relay that never spawned a loop
\* has issued no request.
C11_StartNeedsConfig ==
    /\ [][Start =>
            IF url = "" \/ key = ""
            THEN /\ started' = PyBool(FALSE)
                 /\ UNCHANGED <<running, thread, loops, last_heartbeat, cmds, online, faults>>
            ELSE /\ started' = PyBool(TRUE)
                 /\ running'
                 /\ Len(loops') = Len(loops) + 1
                 /\ loops'[Len(loops')].pc = "top"]_vars
    /\ [](loops = <<>> => (online = FALSE /\ faults = 0))

\* C11's case: start() was called with the key missing and returned False; the
\* relay is stopped, has no loop and has published nothing.
C11_Witness ==
    /\ url # ""
    /\ key = ""
    /\ started = PyBool(FALSE)
    /\ ~running
    /\ loops = <<>>
    /\ ~online

(***************************************************************************)
(* Properties of the pairing manager                                       *)
(***************************************************************************)
\* The poll thread p has just invoked its callback.
Invoked(p) == Len(polls'[p].calls) > Len(polls[p].calls)

\* C12 as stated: a poll thread invokes its callback exactly when it has
\* observed a terminal status, once, with that status as the argument, and
\* does nothing afterwards.
C12_CallbackGetsTerminalStatus ==
    [][\A p \in 1..Len(polls) :
          /\ Invoked(p) <=> (polls'[p] # polls[p] /\ polls[p].pc = "decide"
                                /\ is_terminal(polls[p].status))
          /\ Invoked(p) => polls'[p].calls = <<polls[p].status>>
          /\ polls[p].calls # <<>> => polls'[p] = polls[p]]_vars

\* C12 amended: a poll thread invokes its callback exactly when it has
\* observed a terminal status, once, with the claimed status as the argument
\* when the code was claimed and with {error: "Pairing code expired"} when it
\* expired, and does nothing afterwards.
C12_CallbackOnceOnTerminal ==
    [][\A p \in 1..Len(polls) :
          /\ Invoked(p) <=> (polls'[p] # polls[p] /\ polls[p].pc = "decide"
                                /\ is_terminal(polls[p].status))
          /\ Invoked(p) =>
                polls'[p].calls =
                    <<IF polls[p].status.status = "claimed" THEN polls[p].status
                      ELSE [error |-> "Pairing code expired"]>>
          /\ polls[p].calls # <<>> => polls'[p] = polls[p]]_vars

\* C12's case: one poll has reported a claim, a later one an expired code,
\* and both have ended.
C12_Witness ==
    /\ Len(polls) = 2
    /\ polls[1].pc = "exited"
    /\ Len(polls[1].calls) = 1
    /\ polls[1].calls[1] = [status |-> "claimed", device_name |-> <<"phone">>,
                            anchor_id |-> AnchorId, anchor_name |-> "PC Anchor"]
    /\ polls[2].pc = "exited"
    /\ polls[2].calls = <<[error |-> "Pairing code expired"]>>

\* The code's row is in the table, unclaimed, and its expiry time has come.
PastExpiry(code) ==
    \E k \in 1..Len(codes) :
        /\ codes[k].code = code
        /\ codes[k].claimed_at = <<>>
        /\ clock >= codes[k].expires_at

\* C13: a status check the poll loop makes for an unclaimed code whose expiry
\* time has come reports the code as expired (the terminal status that ends
\* the loop), whether the row is still in the table or the request fails.
C13_ExpiredCodeIsTerminal ==
    [][\A p \in 1..Len(polls) :
          (polls[p].pc = "check" /\ polls'[p].pc = "decide" /\ PastExpiry(polls[p].code)) =>
              status_of(polls'[p].status) = "expired"]_vars

\* The rows of the table that carry the code.
RowsOf(code) == {k \in 1..Len(codes) : codes[k].code = code}

\* C14: a status check that reaches the store returns claimed when the code's
\* row has claimed_at set, expired when the code has no row, and pending
\* otherwise; and no status check, successful or not, changes the table or
\* the pairing manager's state.
C14_StatusClassification ==
    [][\A p \in 1..Len(polls) :
          (polls[p].pc = "check" /\ polls'[p].pc = "decide") =>
              /\ UNCHANGED <<codes, current_code, polling, lastGen>>
              /\ faults' = faults =>
                    status_of(polls'[p].status) =
                        IF RowsOf(polls[p].code) = {} THEN "expired"
                        ELSE IF \E k \in RowsOf(polls[p].code) : codes[k].claimed_at # <<>>
                             THEN "claimed"
                             ELSE "pending"]_vars

\* C14's case: one poll has read claimed for the code on display, another
\* has read expired for a code that has no row.
C14_Witness ==
    /\ Len(polls) = 2
    /\ polls[1].pc = "decide"
    /\ polls[1].status = [status |-> "expired"]
    /\ RowsOf(polls[1].code) = {}
    /\ polls[2].pc = "decide"
    /\ status_of(polls[2].status) = "claimed"
    /\ polls[2].status.device_name = <<"phone">>

\* A-Z and 2-9 without the look-alikes I and O (0 and 1 are not among 2-9).
Unambiguous ==
    ({"A", "B", "C", "D", "E", "F", "G", "H", "I", "J", "K", "L", "M", "N", "O", "P", "Q",
      "R", "S", "T", "U", "V", "W", "X", "Y", "Z"} \ {"I", "O"})
    \cup {"2", "3", "4", "5", "6", "7", "8", "9"}

\* CORA- followed by exactly 4 characters of the unambiguous alphabet.
WellFormed(code) ==
    /\ Len(code) = 9
    /\ SubSeq(code, 1, 5) = <<"C", "O", "R", "A", "-">>
    /\ \A k \in 6..9 : code[k] \in Unambiguous

\* C15: a generate_pairing_code call that returns a code returns a well-formed
\* one, has inserted an unclaimed row with that code, the anchor id and
\* expires_at = now + 5 minutes, and has recorded the code as current_code;
\* a call whose insert failed returns an error value and leaves the table
\* and current_code as they were.
C15_GeneratedCode ==
    [][GenerateCode =>
          IF codes' # codes
          THEN /\ lastGen'.t = "code"
               /\ WellFormed(lastGen'.code)
               /\ lastGen'.anchor_id = AnchorId
               /\ current_code' = lastGen'.code
               /\ Len(codes') = Len(codes) + 1
               /\ SubSeq(codes', 1, Len(codes)) = codes
               /\ codes'[Len(codes')].code = lastGen'.code
               /\ codes'[Len(codes')].anchor_id = AnchorId
               /\ codes'[Len(codes')].expires_at = clock + 300
               /\ codes'[Len(codes')].claimed_at = <<>>
          ELSE /\ lastGen'.t = "error"
               /\ current_code' = current_code]_vars

\* C15's case: a code was generated and inserted, time passed, and a second
\* call failed: the first code is still the current one.
C15_Witness ==
    /\ Len(codes) = 1
    /\ codes[1].expires_at = Epoch + 300
    /\ clock > Epoch
    /\ current_code = codes[1].code
    /\ WellFormed(current_code)
    /\ lastGen = GenerateFailed

\* The status check of poll thread p came back as an error value.
CheckFailed(p) == polls[p].pc = "decide" /\ "error" \in DOMAIN polls[p].status

\* C16: a poll thread whose status check failed goes to its sleep without
\* invoking the callback and without clearing the polling flag; after the
\* sleep it is back at the loop test, and while the flag is set the loop test
\* leads to the next status check.
C16_FailedCheckKeepsPolling ==
    [][\A p \in 1..Len(polls) :
          polls'[p] # polls[p] =>
              /\ CheckFailed(p) =>
                    /\ polls'[p].pc = "sleep"
                    /\ polls'[p].calls = polls[p].calls
                    /\ polling' = polling
              /\ polls[p].pc = "sleep" => polls'[p].pc = "top"
              /\ (polls[p].pc = "top" /\ polling) => polls'[p].pc = "check"]_vars

\* C16's case: the only poll thread had a status check fail, slept, checked
\* again and read pending; its callback was never invoked.
C16_Witness ==
    /\ Len(polls) = 1
    /\ faults = 1
    /\ polling
    /\ polls[1].pc = "decide"
    /\ polls[1].status = [status |-> "pending"]
    /\ polls[1].calls = <<>>

(***************************************************************************)
(* Further properties of the registry and the executor                     *)
(***************************************************************************)
\* C17: for a registered name and any argument value, execute_tool returns a
\* mapping, so the test for an error key on the result is defined.
C17_AlwaysReturnsObject ==
    [][(Called /\ lastExec'.name \in Names(TOOLS)) =>
          /\ ~lastExec'.out.raised
          /\ lastExec'.out.value.t = "dict"
          /\ ~py_in_error(lastExec'.out.value).raised]_vars

\* The register_tool calls made so far for a name, as positions in the log.
RegistrationsOf(name) == {k \in 1..Len(regLog) : regLog[k].name = name}

\* The latest register_tool call made for a registered name.
LatestOf(name) ==
    regLog[CHOOSE k \in RegistrationsOf(name) : \A j \in RegistrationsOf(name) : j <= k]

\* C18: a register_tool call makes its entry the one stored under its name,
\* whether or not the name was registered before, and leaves the entries of
\* all other names as they were; execute_tool on a registered name invokes
\* the handler of the latest registration of that name and no other.
C18_ReRegisterReplaces ==
    [][/\ regLog' # regLog =>
             LET e == regLog'[Len(regLog')]
             IN /\ get_tool(TOOLS', e.name) = e
                /\ Names(TOOLS') = Names(TOOLS) \cup {e.name}
                /\ \A n \in Names(TOOLS) \ {e.name} : get_tool(TOOLS', n) = get_tool(TOOLS, n)
       /\ (Called /\ RegistrationsOf(lastExec'.name) # {}) =>
             lastExec'.out.calls = <<LatestOf(lastExec'.name).func>>]_vars

\* C18's case: "t" was registered with one handler, then with another, and
\* the call that followed invoked the second.
C18_Witness ==
    /\ Cardinality(RegistrationsOf("t")) = 2
    /\ \E j, k \in RegistrationsOf("t") :
          /\ j < k
          /\ regLog[j].func = "echo"
          /\ regLog[k].func = "return_none"
    /\ lastExec.name = "t"
    /\ lastExec.out.calls = <<"return_none">>

\* The names registered so far, each once, in the order of first registration.
RECURSIVE FirstRegistered(_)
FirstRegistered(log) ==
    IF log = <<>> THEN <<>>
    ELSE LET earlier == FirstRegistered(SubSeq(log, 1, Len(log) - 1))
             name == log[Len(log)].name
         IN IF \E k \in 1..Len(earlier) : earlier[k] = name
            THEN earlier
            ELSE Append(earlier, name)

\* C19: list_tools and get_openai_tools return one entry per name registered
\* so far, in the order of first registration, with the description and
\* parameters of the name's latest registration; no call removes a name, and
\* execute_tool leaves the registry as it was.
C19_ListingsReflectRegistry ==
    /\ [](LET names == FirstRegistered(regLog)
          IN /\ list_tools(TOOLS) = names
             /\ get_openai_tools(TOOLS) =
                   [k \in 1..Len(names) |->
                       [type |-> "function",
                        function |-> [name |-> names[k],
                                      description |-> LatestOf(names[k]).description,
                                      parameters |-> LatestOf(names[k]).parameters]]])
    /\ [][/\ Names(TOOLS) \subseteq Names(TOOLS')
          /\ Called => TOOLS' = TOOLS]_vars

\* C19's case: an import-time tool was registered again with another
\* description and schema, a new name was registered, and a tool was
\* executed: the old name kept its first place and the new one is last.
C19_Witness ==
    /\ Len(regLog) = Len(ImportedTools) + 2
    /\ list_tools(TOOLS)[1] = "echo"
    /\ get_openai_tools(TOOLS)[1].function.description = "second"
    /\ get_openai_tools(TOOLS)[1].function.parameters = "none"
    /\ list_tools(TOOLS)[Len(TOOLS)] = "t"
    /\ Len(TOOLS) = Len(ImportedTools) + 1
    /\ lastExec.name = "t"

(***************************************************************************)
(* Properties of the relay's heartbeat timer                               *)
(***************************************************************************)
\* Poll thread t takes a step.
Steps(t) == loops'[t] # loops[t]

\* Thread t calls self.heartbeat() in this step: the call returned and the
\* timer was set, or it raised and the cycle was abandoned.
HeartbeatCalled(t) ==
    /\ Pc(t) = "top"
    /\ Steps(t)
    /\ \/ last_heartbeat'[t] # last_heartbeat[t]
       \/ loops'[t].pc \notin {"fetch", "exited"}

\* C20: in a poll cycle the heartbeat check comes first, then the fetch,
\* then the executions; a cycle calls heartbeat exactly when at least 30
\* seconds have passed since the thread's last heartbeat, and a heartbeat
\* that returns sets the timer to the cycle's time.
C20_HeartbeatWhenDue ==
    [][\A t \in 1..Len(loops) :
          /\ (Steps(t) /\ loops'[t].pc = "fetch") => Pc(t) = "top"
          /\ (Steps(t) /\ loops'[t].pc = "mark") => Pc(t) \in {"fetch", "tool"}
          /\ (Steps(t) /\ loops'[t].pc = "tool") => Pc(t) = "mark"
          /\ (Pc(t) = "top" /\ Steps(t) /\ running) =>
                /\ HeartbeatCalled(t) <=> clock - last_heartbeat[t] >= 30
                /\ last_heartbeat'[t] \in {last_heartbeat[t], clock}]_vars

(***************************************************************************)
(* Properties of the command routers                                       *)
(***************************************************************************)
IsSpace(c) == c \in Whitespace

\* The typed text is "/", optional whitespace, a token ending at b, and then
\* either nothing but whitespace (c is past the end) or whitespace and the
\* rest of the text from c on.
SlashShape(a, b, c) ==
    /\ typed[1] = "/"
    /\ a < b
    /\ \A k \in 2..a : IsSpace(typed[k])
    /\ \A k \in (a + 1)..b : ~IsSpace(typed[k])
    /\ b = Len(typed) \/ IsSpace(typed[b + 1])
    /\ b < c
    /\ \A k \in (b + 1)..(c - 1) : IsSpace(typed[k])
    /\ c <= Len(typed) => ~IsSpace(typed[c])

\* C21: for text that starts with "/" and has a first token, the router
\* resolves to the token's tool with the rest of the text as its argument
\* when the token is a name of the tool table, whatever keywords the text
\* contains, and to the result of keyword matching when it is not.
C21_SlashCommandWins ==
    \A a, b \in 1..Len(typed), c \in 1..(Len(typed) + 1) :
        (intent # Unrouted /\ SlashShape(a, b, c)) =>
            LET token == SubSeq(typed, a + 1, b)
                rest == SubSeq(typed, c, Len(typed))
            IN IF InCliTools(token)
               THEN intent = Intent(token, rest)
               ELSE intent = keyword_intent(typed)

\* C21's case: a slash command whose argument contains the keyword of
\* another tool was resolved to the named tool.
C21_Witness ==
    /\ typed # NoText
    /\ typed[1] = "/"
    /\ intent # Unrouted
    /\ intent.kind = "tool"
    /\ intent.arg # <<>>
    /\ keyword_intent(typed) # NoIntent
    /\ keyword_intent(typed).tool # intent.tool

\* Where a keyword occurs in a text, whatever the case of the text's letters.
Occurrences(text, keyword) ==
    {k \in 0..(Len(text) - Len(keyword)) :
        lower(SubSeq(text, k + 1, k + Len(keyword))) = keyword}

\* The original text after the first occurrence of the keyword, trimmed.
FollowsKeyword(text, keyword) ==
    LET first == CHOOSE k \in Occurrences(text, keyword) :
                     \A j \in Occurrences(text, keyword) : k <= j
    IN strip(From(text, first + Len(keyword)))

\* The text has a slash match: a "/" and a first token that names a tool.
SlashMatch(text) ==
    \E a, b \in 1..Len(text) :
        /\ text[1] = "/"
        /\ a < b
        /\ \A k \in 2..a : IsSpace(text[k])
        /\ \A k \in (a + 1)..b : ~IsSpace(text[k])
        /\ b = Len(text) \/ IsSpace(text[b + 1])
        /\ InCliTools(SubSeq(text, a + 1, b))

\* The entries of a keyword table whose keyword is in the lower-cased text.
Hits(table, text) ==
    {k \in 1..Len(table) : IsSubstring(table[k][1], lower(text))}

FirstHit(table, text) ==
    table[CHOOSE k \in Hits(table, text) : \A j \in Hits(table, text) : k <= j]

\* The two routers' tables as <<keyword, tool>> pairs in declared order.
HintPairs == [k \in 1..Len(tool_hints) |-> <<tool_hints[k].hint, tool_hints[k].tool>>]
KeywordPairs == [k \in 1..Len(tool_keywords) |-> <<tool_keywords[k].keyword, tool_keywords[k].tool>>]

\* The text a command carries as its parameter: none counts as empty.
ParamText(params) == IF params = NoParams THEN <<>> ELSE params.text

\* C22: without a slash match, each router resolves to the tool of the first
\* keyword of its table, in declared order, that the lower-cased text
\* contains, with the original text after the first occurrence of that
\* keyword, trimmed, as the argument.
C22_FirstKeywordAndArgument ==
    /\ (intent \notin {Unrouted, IndexError} /\ ~SlashMatch(typed)
            /\ Hits(HintPairs, typed) # {}) =>
          LET hit == FirstHit(HintPairs, typed)
          IN intent = Intent(hit[2], FollowsKeyword(typed, hit[1]))
    /\ (command # Unrouted /\ Hits(KeywordPairs, typed) # {}) =>
          LET hit == FirstHit(KeywordPairs, typed)
          IN /\ command.kind = "tool"
             /\ command.tool = hit[2]
             /\ ParamText(command.params) = FollowsKeyword(typed, hit[1])

\* C23: a typed line that has no slash match and contains none of the
\* table's keywords is handed, whole, to the AI backend and to no tool.
\* (A line that is empty or one of the host's own commands is not routed.)
C23_FallbackToAi ==
    (turn \notin {Unrouted, [kind |-> "continue"], [kind |-> "host"]}
        /\ ~SlashMatch(strip(typed))
        /\ Hits(HintPairs, strip(typed)) = {}) =>
            turn = [kind |-> "query_ai", prompt |-> strip(typed)]

(***************************************************************************)
(* Properties of concurrent poll loops                                     *)
(***************************************************************************)
\* The request of this step was sent and answered.
Answered == is_configured /\ faults' = faults

\* C24: nothing reserves a command for one loop.  A fetch changes no row
\* and returns every pending command, also one that another loop has in
\* hand; the mark-running update is applied whatever the row's status; and
\* a loop with a command in hand can and does invoke its tool whatever the
\* row's status and however often the tool ran.  So two loops can both
\* fetch one pending command and both invoke its tool.
C24_NoClaimOnFetch ==
    /\ [](\A t \in 1..Len(loops) : Pc(t) = "tool" => ENABLED LoopExecute(t))
    /\ [][\A t \in 1..Len(loops) :
             /\ (Pc(t) = "fetch" /\ Steps(t)) =>
                   /\ cmds' = cmds
                   /\ Answered =>
                         \A k \in 1..Len(cmds) :
                             cmds[k].status = "pending" =>
                                 \E j \in 1..Len(loops'[t].batch) :
                                     loops'[t].batch[j] = cmds[k].id
             /\ (Pc(t) = "mark" /\ Steps(t)) =>
                   /\ loops'[t].pc = "tool"
                   /\ Answered => Row(cmds', Current(t)).status = "running"
             /\ (Pc(t) = "tool" /\ Steps(t)) =>
                   runs'[Current(t)] = runs[Current(t)] + 1]_vars

\* C24's case: with every request answered, two loops have both invoked the
\* tool of the one queued command.
C24_Witness ==
    /\ Len(loops) = 2
    /\ faults = 0
    /\ Len(cmds) = 1
    /\ runs[1] = 2

\* C25: with a single poll loop, a command's tool is invoked only when the
\* row has been marked running, and over all cycles at most once.
C25_SingleLoopAtMostOnce ==
    /\ [](\A k \in 1..Len(cmds) : runs[cmds[k].id] <= 1)
    /\ [][\A t \in 1..Len(loops) :
             (Pc(t) = "tool" /\ Steps(t)) => Row(cmds, Current(t)).status = "running"]_vars

\* C26: once stop() has returned and start() was called again, a loop
\* spawned by an earlier start() begins no further cycle: at its next loop
\* test it exits.
C26_OneLoopAfterRestart ==
    [][\A t \in 1..Len(loops) :
          (t < thread /\ Pc(t) = "top" /\ Steps(t)) => loops'[t].pc = "exited"]_vars

(***************************************************************************)
(* Properties of stopping the pairing poll                                 *)
(***************************************************************************)
\* No callback was invoked so far, and stop_pairing_poll() has returned
\* since poll thread p was started: the flag is down, or a later poll was
\* started, which this host does only while the flag is down.
StoppedPoll(p) ==
    /\ \A q \in 1..Len(polls) : polls[q].calls = <<>>
    /\ ~polling \/ p < Len(polls)

\* C27: a poll thread that was stopped invokes no callback and begins no
\* further status check.
C27_StoppedPollIsSilent ==
    [][\A p \in 1..Len(polls) :
          (StoppedPoll(p) /\ polls'[p] # polls[p]) =>
              /\ ~Invoked(p)
              /\ ~(polls[p].pc = "top" /\ polls'[p].pc = "check")]_vars

(***************************************************************************)
(* Properties of the chat assistant                                        *)
(***************************************************************************)
\* C28: the chat assistant responds to each chat message at most once,
\* however many cycles fetch the message again.
C28_AnswersOnce ==
    \A k \in 1..Len(chat) : answered[k] <= 1

(***************************************************************************)
(* Properties of speech output                                             *)
(***************************************************************************)
\* C29: speak(text, block=True) eventually returns, also when
\* stop_speaking() clears the queue while the call waits: every call that
\* waits in _tts_queue.join() is released.
C29_BlockingSpeakReturns ==
    \A c \in 1..MaxSpeaks :
        (c <= Len(speaks) /\ speaks[c].pc = "join")
            ~> (c <= Len(speaks) /\ speaks[c].pc = "returned")

(***************************************************************************)
(* Properties of the relay and the pairing together                        *)
(***************************************************************************)
\* C30: the relay executes remote commands only after a pairing has been
\* claimed for this installation: whenever a remote command's tool has been
\* invoked, a pairing code of this anchor was observed as claimed before.
C30_CommandsOnlyAfterPairing ==
    (\E n \in 1..Len(runs) : runs[n] > 0) => ObservedClaimed

====
